---- MODULE Spec2Model ----
(***************************************************************************)
(* A model of agents/agent_log_scorer.py: the scoring pipeline of          *)
(* AgentLogScorer (validation, transcript extraction, keyword matching,    *)
(* score computation, classification, violation detection), the per-agent  *)
(* statistics table, and the synchronous and asynchronous batch drivers.   *)
(*                                                                         *)
(* Python values are tagged records [type |-> ..., payload]; a str is the  *)
(* sequence of its characters; a dict is the sequence of its (key, value)  *)
(* items in insertion order.                                               *)
(***************************************************************************)
EXTENDS Integers, Sequences, FiniteSets, TLC

----------------------------------------------------------------------------
(* Strings *)

UpperChars == <<"A", "B", "C", "D", "E", "F", "G", "H", "I", "J", "K", "L", "M", "N", "O", "P", "Q", "R", "S", "T", "U", "V", "W", "X", "Y", "Z", "Ä", "Ö", "Ü">>
LowerChars == <<"a", "b", "c", "d", "e", "f", "g", "h", "i", "j", "k", "l", "m", "n", "o", "p", "q", "r", "s", "t", "u", "v", "w", "x", "y", "z", "ä", "ö", "ü">>

\* the lower-case letter of every upper-case letter
LowerTable ==
  [c \in {UpperChars[i] : i \in 1..Len(UpperChars)} |->
     LowerChars[CHOOSE i \in 1..Len(UpperChars) : UpperChars[i] = c]]

\* str.lower() on one character
LowerChar(c) == IF c \in DOMAIN LowerTable THEN LowerTable[c] ELSE c

\* str.lower()
lower(s) == [i \in 1..Len(s) |-> LowerChar(s[i])]

\* the Python operator  sub in s  on two strings
Contains(sub, s) ==
  \E i \in 0..(Len(s) - Len(sub)) : \A j \in 1..Len(sub) : s[i + j] = sub[j]

RECURSIVE join(_, _)
\* sep.join(parts)
join(sep, parts) ==
  IF parts = <<>> THEN <<>>
  ELSE IF Len(parts) = 1 THEN parts[1]
  ELSE parts[1] \o sep \o join(sep, Tail(parts))

----------------------------------------------------------------------------
(* Python values *)

PyNone == [type |-> "NoneType"]
PyBool(b) == [type |-> "bool", b |-> b]
PyInt(n) == [type |-> "int", n |-> n]
PyStr(s) == [type |-> "str", s |-> s]
PyList(items) == [type |-> "list", items |-> items]
PyDict(items) == [type |-> "dict", items |-> items]

isinstance(v, t) == v.type = t

\* key in d
Has(d, key) == \E i \in 1..Len(d.items) : d.items[i][1] = key

\* d.get(key, default)
get(d, key, default) ==
  IF Has(d, key)
  THEN d.items[CHOOSE i \in 1..Len(d.items) : d.items[i][1] = key][2]
  ELSE default

\* bool(v)
bool(v) ==
  CASE v.type = "NoneType" -> FALSE
    [] v.type = "bool" -> v.b
    [] v.type = "int" -> v.n # 0
    [] v.type = "str" -> Len(v.s) > 0
    [] v.type = "list" -> Len(v.items) > 0
    [] v.type = "dict" -> Len(v.items) > 0

Digits == <<"0", "1", "2", "3", "4", "5", "6", "7", "8", "9">>
txt_None == <<"N", "o", "n", "e">>
txt_True == <<"T", "r", "u", "e">>
txt_False == <<"F", "a", "l", "s", "e">>

RECURSIVE repr(_)
\* repr(v) for the values a decoded JSON document can hold
repr(v) ==
  CASE v.type = "NoneType" -> txt_None
    [] v.type = "bool" -> IF v.b THEN txt_True ELSE txt_False
    [] v.type = "int" -> <<Digits[v.n + 1]>>
    [] v.type = "str" -> <<"'">> \o v.s \o <<"'">>
    [] v.type = "list" ->
         <<"[">> \o join(<<",", " ">>, [i \in 1..Len(v.items) |-> repr(v.items[i])]) \o <<"]">>

\* str(v)
str(v) == IF v.type = "str" THEN v.s ELSE repr(v)

\* hash(v) raises TypeError for the mutable containers
Hashable(v) == v.type \notin {"list", "dict"}

max(a, b) == IF a >= b THEN a ELSE b

----------------------------------------------------------------------------
(* Text constants *)

PLACEHOLDER == <<"P", "L", "A", "C", "E", "H", "O", "L", "D", "E", "R">>
STOP_REQUIRED == <<"S", "T", "O", "P", "_", "R", "E", "Q", "U", "I", "R", "E", "D">>
pat_price_forbidden == <<"p", "r", "i", "c", "e", " ", "e", "s", "t", "i", "m", "a", "t", "e", "s", " ", "w", "i", "t", "h", "o", "u", "t", " ", "f", "a", "c", "t">>
pat_legal_forbidden == <<"l", "e", "g", "a", "l", " ", "p", "r", "o", "m", "i", "s", "e", "s", " ", "w", "i", "t", "h", "o", "u", "t", " ", "f", "a", "c", "t">>
pat_price_must == <<"s", "t", "o", "p", "_", "r", "e", "q", "u", "i", "r", "e", "d", " ", "o", "n", " ", "p", "r", "i", "c", "e">>
pat_legal_must == <<"s", "t", "o", "p", "_", "r", "e", "q", "u", "i", "r", "e", "d", " ", "o", "n", " ", "l", "e", "g", "a", "l">>
txt_unknown == <<"u", "n", "k", "n", "o", "w", "n">>
kw_eurosign == <<"€">>
kw_euro == <<"e", "u", "r", "o">>
kw_preis == <<"p", "r", "e", "i", "s">>
kw_kostet == <<"k", "o", "s", "t", "e", "t">>
kw_kosten == <<"k", "o", "s", "t", "e", "n">>
kw_gebuehr == <<"g", "e", "b", "ü", "h", "r">>
kw_tarif == <<"t", "a", "r", "i", "f">>
kw_dollar == <<"$">>
kw_usd == <<"u", "s", "d">>
kw_chf == <<"c", "h", "f">>
kw_gesetz == <<"g", "e", "s", "e", "t", "z">>
kw_rechtlich == <<"r", "e", "c", "h", "t", "l", "i", "c", "h">>
kw_erlaubt == <<"e", "r", "l", "a", "u", "b", "t">>
kw_illegal == <<"i", "l", "l", "e", "g", "a", "l">>
kw_legal == <<"l", "e", "g", "a", "l">>
kw_vorschrift == <<"v", "o", "r", "s", "c", "h", "r", "i", "f", "t">>
kw_verordnung == <<"v", "e", "r", "o", "r", "d", "n", "u", "n", "g">>
kw_recht == <<"r", "e", "c", "h", "t">>
txt_hello == <<"T", "a", "g">>
txt_price == <<"5", " ", "E", "U", "R", "O">>
txt_both == <<"9", "€", " ", "G", "e", "s", "e", "t", "z">>
txt_legal == <<"l", "e", "g", "a", "l", "?">>
txt_preis == <<"P", "r", "e", "i", "s", "?">>
txt_lower_marker == <<"p", "l", "a", "c", "e", "h", "o", "l", "d", "e", "r">>
txt_embedded == <<"x", "P", "L", "A", "C", "E", "H", "O", "L", "D", "E", "R", "x">>
txt_ok == <<"o", "k">>
txt_A1 == <<"A", "1">>
txt_A2 == <<"A", "2">>
txt_Anna == <<"A", "n", "n", "a">>
kw_upper_eur == <<"E", "U", "R">>
kw_law == <<"l", "a", "w">>
txt_law == <<"L", "A", "W", " ", "5", "e", "u", "r">>
rule_price_forbidden == <<"N", "o", " ", "p", "r", "i", "c", "e", " ", "e", "s", "t", "i", "m", "a", "t", "e", "s", " ", "w", "i", "t", "h", "o", "u", "t", " ", "f", "a", "c", "t">>
rule_legal_forbidden == <<"N", "o", " ", "L", "E", "G", "A", "L", " ", "p", "r", "o", "m", "i", "s", "e", "s", " ", "w", "i", "t", "h", "o", "u", "t", " ", "f", "a", "c", "t">>
rule_price_must == <<"S", "T", "O", "P", "_", "R", "E", "Q", "U", "I", "R", "E", "D", " ", "o", "n", " ", "p", "r", "i", "c", "e">>
rule_legal_must == <<"s", "t", "o", "p", "_", "r", "e", "q", "u", "i", "r", "e", "d", " ", "o", "n", " ", "l", "e", "g", "a", "l">>
rule_other == <<"b", "e", " ", "p", "o", "l", "i", "t", "e">>

----------------------------------------------------------------------------
(* RiskLevel *)

RiskLevels == {"LOW", "MEDIUM", "HIGH", "CRITICAL"}

\* _get_order comparing the levels by their value strings
_get_order_ByValue(level) ==
  LET order == <<"CRITICAL", "HIGH", "LOW", "MEDIUM">>
  IN (CHOOSE i \in 1..Len(order) : order[i] = level) - 1

\* RiskLevel._get_order: the index of the level in the declaration order
_get_order(level) ==
  LET order == <<"LOW", "MEDIUM", "HIGH", "CRITICAL">>
  IN (CHOOSE i \in 1..Len(order) : order[i] = level) - 1

\* RiskLevel.__lt__
__lt__(a, b) == _get_order(a) < _get_order(b)

\* __le__ with the strict comparison
__le__Strict(a, b) == _get_order(a) < _get_order(b)

\* RiskLevel.__le__
__le__(a, b) == _get_order(a) <= _get_order(b)

\* RiskLevel.__gt__
__gt__(a, b) == _get_order(a) > _get_order(b)

\* RiskLevel.__ge__
__ge__(a, b) == _get_order(a) >= _get_order(b)

\* a == b of two members of the Enum: identity
__eq__(a, b) == a = b

----------------------------------------------------------------------------
(* ScoringConfig *)

\* ScoringConfig(): the field defaults
DefaultConfig ==
  [ price_keywords |-> <<kw_eurosign, kw_euro, kw_preis, kw_kostet, kw_kosten,
                         kw_gebuehr, kw_tarif, kw_dollar, kw_usd, kw_chf>>,
    legal_keywords |-> <<kw_gesetz, kw_rechtlich, kw_erlaubt, kw_illegal,
                         kw_legal, kw_vorschrift, kw_verordnung, kw_recht>>,
    risk_thresholds |-> [low |-> 0, medium |-> 1, high |-> 2, critical |-> 3],
    placeholder_bonus |-> -1,
    yaml_rules |-> PyNone ]

\* thresholds.get(key, default) on the risk_thresholds mapping
ThresholdGet(thresholds, key, default) ==
  IF key \in DOMAIN thresholds THEN thresholds[key] ELSE default

\* the characters of the keys from_yaml looks up
KeyChars ==
  [ keywords |-> <<"k", "e", "y", "w", "o", "r", "d", "s">>,
    price |-> <<"p", "r", "i", "c", "e">>,
    legal |-> <<"l", "e", "g", "a", "l">>,
    risk_thresholds |-> <<"r", "i", "s", "k", "_", "t", "h", "r", "e", "s", "h", "o", "l", "d", "s">>,
    scoring |-> <<"s", "c", "o", "r", "i", "n", "g">>,
    placeholder_bonus |-> <<"p", "l", "a", "c", "e", "h", "o", "l", "d", "e", "r", "_", "b", "o", "n", "u", "s">>,
    flow_validator |-> <<"f", "l", "o", "w", "_", "v", "a", "l", "i", "d", "a", "t", "o", "r">> ]

\* key in container, for a str key
contains(container, key) ==
  CASE container.type = "dict" -> [exc |-> "", found |-> Has(container, key)]
    [] container.type = "str" -> [exc |-> "", found |-> Contains(KeyChars[key], container.s)]
    [] container.type = "list" ->
         [exc |-> "", found |-> \E i \in 1..Len(container.items) :
                                   container.items[i] = PyStr(KeyChars[key])]
    [] OTHER -> [exc |-> "TypeError"]

\* if key in container: container[key]  -- the item, its absence, or the
\* TypeError of  in  on a value that is no container and of a str index
\* into a str or a list
Lookup(container, key) ==
  LET c == contains(container, key)
  IN IF c.exc # "" THEN [exc |-> c.exc]
     ELSE IF ~c.found THEN [exc |-> "", found |-> FALSE]
     ELSE IF container.type = "dict"
     THEN [exc |-> "", found |-> TRUE, value |-> get(container, key, PyNone)]
     ELSE [exc |-> "TypeError"]

\* if k1 in container: if k2 in container[k1]: container[k1][k2]
Lookup2(container, k1, k2) ==
  LET outer == Lookup(container, k1)
  IN IF outer.exc # "" \/ ~outer.found THEN outer ELSE Lookup(outer.value, k2)

\* ScoringConfig(): the defaults, as the Python values a document can replace
ScoringConfig ==
  [ price_keywords |-> PyList([i \in 1..Len(DefaultConfig.price_keywords) |->
                                PyStr(DefaultConfig.price_keywords[i])]),
    legal_keywords |-> PyList([i \in 1..Len(DefaultConfig.legal_keywords) |->
                                PyStr(DefaultConfig.legal_keywords[i])]),
    risk_thresholds |-> PyDict(<< <<"low", PyInt(DefaultConfig.risk_thresholds.low)>>,
                                  <<"medium", PyInt(DefaultConfig.risk_thresholds.medium)>>,
                                  <<"high", PyInt(DefaultConfig.risk_thresholds.high)>>,
                                  <<"critical", PyInt(DefaultConfig.risk_thresholds.critical)>> >>),
    placeholder_bonus |-> PyInt(DefaultConfig.placeholder_bonus),
    yaml_rules |-> DefaultConfig.yaml_rules ]

\* the value the lookup found, else the value the field has
Assigned(lookup, current) == IF lookup.found THEN lookup.value ELSE current

\* ScoringConfig.from_yaml: open() raises for a missing and for an unreadable
\* file, yaml.safe_load() for a malformed document; FileNotFoundError and
\* YAMLError are caught.  The lookups in the decoded document are inside the
\* try block and their errors are not caught.
from_yaml(source) ==
  IF source.file = "missing" THEN [exc |-> "", value |-> ScoringConfig]
  ELSE IF source.file = "unreadable" THEN [exc |-> "PermissionError"]
  ELSE IF source.file = "malformed" THEN [exc |-> "", value |-> ScoringConfig]
  ELSE LET yaml_config == source.document
       IN IF ~bool(yaml_config) THEN [exc |-> "", value |-> ScoringConfig]
          ELSE LET price == Lookup2(yaml_config, "keywords", "price")
                   legal == Lookup2(yaml_config, "keywords", "legal")
                   thresholds == Lookup(yaml_config, "risk_thresholds")
                   bonus == Lookup2(yaml_config, "scoring", "placeholder_bonus")
                   rules == Lookup(yaml_config, "flow_validator")
                   steps == <<price, legal, thresholds, bonus, rules>>
               IN IF \E i \in 1..Len(steps) : steps[i].exc # ""
                  THEN [exc |-> steps[CHOOSE i \in 1..Len(steps) :
                                        /\ steps[i].exc # ""
                                        /\ \A j \in 1..(i - 1) : steps[j].exc = ""].exc]
                  ELSE [ exc |-> "",
                         value |-> [ price_keywords |-> Assigned(price, ScoringConfig.price_keywords),
                                     legal_keywords |-> Assigned(legal, ScoringConfig.legal_keywords),
                                     risk_thresholds |-> Assigned(thresholds, ScoringConfig.risk_thresholds),
                                     placeholder_bonus |-> Assigned(bonus, ScoringConfig.placeholder_bonus),
                                     yaml_rules |-> Assigned(rules, ScoringConfig.yaml_rules) ] ]

----------------------------------------------------------------------------
(* AgentLogScorer: the scoring pipeline *)

\* validate_log testing the transcript before the agent_id
validate_log_TranscriptFirst(log) ==
  IF ~isinstance(log, "dict")
  THEN <<FALSE, <<"Log muss ein Dictionary sein, erhalten: ", log.type>> >>
  ELSE IF Has(log, "transcript") /\ ~isinstance(get(log, "transcript", PyNone), "list")
  THEN <<FALSE, <<"Feld 'transcript' muss eine Liste sein">> >>
  ELSE IF ~Has(log, "agent_id")
  THEN <<FALSE, <<"Pflichtfeld 'agent_id' fehlt">> >>
  ELSE <<TRUE, <<>> >>

\* validate_log without the test for agent_id
validate_log_NoAgentId(log) ==
  IF ~isinstance(log, "dict")
  THEN <<FALSE, <<"Log muss ein Dictionary sein, erhalten: ", log.type>> >>
  ELSE IF Has(log, "transcript") /\ ~isinstance(get(log, "transcript", PyNone), "list")
  THEN <<FALSE, <<"Feld 'transcript' muss eine Liste sein">> >>
  ELSE <<TRUE, <<>> >>

\* AgentLogScorer.validate_log: the pair (is_valid, error message); the
\* message is the sequence of the pieces it is formatted from
validate_log(log) ==
  IF ~isinstance(log, "dict")
  THEN <<FALSE, <<"Log muss ein Dictionary sein, erhalten: ", log.type>> >>
  ELSE IF ~Has(log, "agent_id")
  THEN <<FALSE, <<"Pflichtfeld 'agent_id' fehlt">> >>
  ELSE IF Has(log, "transcript") /\ ~isinstance(get(log, "transcript", PyNone), "list")
  THEN <<FALSE, <<"Feld 'transcript' muss eine Liste sein">> >>
  ELSE <<TRUE, <<>> >>

RECURSIVE TranscriptParts(_)
\* the loop of _extract_transcript: the list  parts
TranscriptParts(lines) ==
  IF Len(lines) = 0 THEN <<>>
  ELSE LET line == Head(lines)
       IN (IF isinstance(line, "dict") THEN <<get(line, "text", PyStr(<<>>))>>
           ELSE IF isinstance(line, "str") THEN <<line>>
           ELSE <<>>) \o TranscriptParts(Tail(lines))

\* AgentLogScorer._extract_transcript; " ".join raises TypeError when a
\* collected part is not a str
_extract_transcript(log) ==
  LET parts == TranscriptParts(get(log, "transcript", PyList(<<>>)).items)
  IN IF \E i \in 1..Len(parts) : ~isinstance(parts[i], "str")
     THEN [exc |-> "TypeError"]
     ELSE [exc |-> "", value |-> join(<<" ">>, [i \in 1..Len(parts) |-> parts[i].s])]

\* AgentLogScorer._check_keywords
_check_keywords(text, keywords) ==
  LET text_lower == lower(text)
      found == SelectSeq(keywords, LAMBDA kw : Contains(lower(kw), text_lower))
  IN <<Len(found) > 0, found>>

\* _get_risk_level with a strict comparison against the high threshold
_get_risk_level_Strict(config, risk_score) ==
  LET thresholds == config.risk_thresholds
  IN IF risk_score <= ThresholdGet(thresholds, "low", 0) THEN "LOW"
     ELSE IF risk_score <= ThresholdGet(thresholds, "medium", 1) THEN "MEDIUM"
     ELSE IF risk_score < ThresholdGet(thresholds, "high", 2) THEN "HIGH"
     ELSE "CRITICAL"

\* AgentLogScorer._get_risk_level
_get_risk_level(config, risk_score) ==
  LET thresholds == config.risk_thresholds
  IN IF risk_score <= ThresholdGet(thresholds, "low", 0) THEN "LOW"
     ELSE IF risk_score <= ThresholdGet(thresholds, "medium", 1) THEN "MEDIUM"
     ELSE IF risk_score <= ThresholdGet(thresholds, "high", 2) THEN "HIGH"
     ELSE "CRITICAL"

\* is_critical counting the level CRITICAL only
is_critical_OnlyCritical(result) == result.risk_level = "CRITICAL"

\* ScoreResult.is_critical
is_critical(result) == result.risk_level \in {"HIGH", "CRITICAL"}

RECURSIVE ForbiddenViolations(_, _)
\* the loop of _check_violations over the "forbidden" rules
ForbiddenViolations(rules, result) ==
  IF Len(rules) = 0 THEN <<>>
  ELSE LET rule == Head(rules).s
       IN (IF Contains(pat_price_forbidden, lower(rule))
              /\ result.price_claim /\ ~result.stop_triggered
           THEN << <<"Verstoß: ", rule>> >> ELSE <<>>)
          \o (IF Contains(pat_legal_forbidden, lower(rule))
                 /\ result.legal_claim /\ ~result.stop_triggered
              THEN << <<"Verstoß: ", rule>> >> ELSE <<>>)
          \o ForbiddenViolations(Tail(rules), result)

RECURSIVE MustIncludeViolations(_, _)
\* the loop of _check_violations over the "must_include" rules
MustIncludeViolations(rules, result) ==
  IF Len(rules) = 0 THEN <<>>
  ELSE LET rule == Head(rules).s
       IN (IF Contains(pat_price_must, lower(rule))
              /\ result.price_claim /\ ~result.stop_triggered
           THEN << <<"Fehlend: ", rule>> >> ELSE <<>>)
          \o (IF Contains(pat_legal_must, lower(rule))
                 /\ result.legal_claim /\ ~result.stop_triggered
              THEN << <<"Fehlend: ", rule>> >> ELSE <<>>)
          \o MustIncludeViolations(Tail(rules), result)

\* _check_violations without the test of stop_triggered
_check_violations_IgnoresStop(config, result) ==
  LET rules == config.yaml_rules
      unstopped == [result EXCEPT !.stop_triggered = FALSE]
  IN IF ~bool(rules) THEN <<>>
     ELSE ForbiddenViolations(get(rules, "forbidden", PyList(<<>>)).items, unstopped)
          \o MustIncludeViolations(get(rules, "must_include", PyList(<<>>)).items, unstopped)

\* AgentLogScorer._check_violations
_check_violations(config, result) ==
  LET rules == config.yaml_rules
  IN IF ~bool(rules) THEN <<>>
     ELSE ForbiddenViolations(get(rules, "forbidden", PyList(<<>>)).items, result)
          \o MustIncludeViolations(get(rules, "must_include", PyList(<<>>)).items, result)

\* the placeholder test of score_log on str(log.get("result", ""))
PlaceholderUsed(log) ==
  LET result_text == str(get(log, "result", PyStr(<<>>)))
  IN Contains(PLACEHOLDER, result_text) \/ Contains(STOP_REQUIRED, result_text)

\* the score computation applying the bonus to every placeholder marker
RawScore_AnyPlaceholder(config, price_found, legal_found, stop_triggered, placeholder_used) ==
  LET r0 == 0
      r1 == IF price_found THEN r0 + 1 ELSE r0
      r2 == IF legal_found THEN r1 + 1 ELSE r1
      r3 == IF stop_triggered THEN r2 - 1 ELSE r2
      r4 == IF placeholder_used THEN r3 + config.placeholder_bonus ELSE r3
  IN r4

\* the score computation without the placeholder bonus
RawScore_NoBonus(config, price_found, legal_found, stop_triggered, placeholder_used) ==
  LET r0 == 0
      r1 == IF price_found THEN r0 + 1 ELSE r0
      r2 == IF legal_found THEN r1 + 1 ELSE r1
      r3 == IF stop_triggered THEN r2 - 1 ELSE r2
  IN r3

\* the score computation of score_log, before the clamp
RawScore(config, price_found, legal_found, stop_triggered, placeholder_used) ==
  LET r0 == 0
      r1 == IF price_found THEN r0 + 1 ELSE r0
      r2 == IF legal_found THEN r1 + 1 ELSE r1
      r3 == IF stop_triggered THEN r2 - 1 ELSE r2
      r4 == IF placeholder_used /\ (price_found \/ legal_found)
            THEN r3 + config.placeholder_bonus ELSE r3
  IN r4

\* score_log without the clamp
ClampScore_Unclamped(raw) == raw

\* the clamp of score_log
ClampScore(raw) == max(0, raw)

\* AgentLogScorer.score_log up to the ScoreResult with its violations:
\* what the call raises, or the result it has built
BuildResult(config, log) ==
  LET v == validate_log(log)
  IN IF ~v[1] THEN [kind |-> "raise", exc |-> "ValueError", msg |-> v[2]]
     ELSE LET t == _extract_transcript(log)
          IN IF t.exc # "" THEN [kind |-> "raise", exc |-> t.exc, msg |-> <<>>]
             ELSE LET transcript == t.value
                      price == _check_keywords(transcript, config.price_keywords)
                      legal == _check_keywords(transcript, config.legal_keywords)
                      stop_triggered == bool(get(log, "stop_triggered", PyBool(FALSE)))
                      placeholder_used == PlaceholderUsed(log)
                      risk_score == ClampScore(RawScore(config, price[1], legal[1],
                                                        stop_triggered, placeholder_used))
                      result == [ agent_id |-> get(log, "agent_id", PyNone),
                                  contact |-> get(log, "contact_name", PyNone),
                                  timestamp |-> get(log, "timestamp", PyNone),
                                  price_claim |-> price[1],
                                  price_keywords_found |-> price[2],
                                  legal_claim |-> legal[1],
                                  legal_keywords_found |-> legal[2],
                                  stop_triggered |-> stop_triggered,
                                  placeholder_used |-> placeholder_used,
                                  risk |-> risk_score,
                                  risk_level |-> _get_risk_level(config, risk_score),
                                  violations |-> <<>> ]
                  IN [kind |-> "return",
                      value |-> [result EXCEPT !.violations = _check_violations(config, result)]]

----------------------------------------------------------------------------
(* AgentStatistics and the statistics table *)

\* AgentStatistics(agent_id=...): the dataclass defaults; risk_levels comes
\* from a default_factory, so every instance owns its histogram
AgentStatistics(agent_id) ==
  [ agent_id |-> agent_id,
    total_interactions |-> 0,
    total_risk_score |-> 0,
    price_claims |-> 0,
    legal_claims |-> 0,
    stops_triggered |-> 0,
    placeholders_used |-> 0,
    critical_incidents |-> 0,
    risk_levels |-> [LOW |-> 0, MEDIUM |-> 0, HIGH |-> 0, CRITICAL |-> 0] ]

RECURSIVE gcd(_, _)
gcd(a, b) == IF b = 0 THEN a ELSE gcd(b, a % b)

\* a float, held as the fraction in lowest terms it is the rounding of; for
\* the small non-negative counters of the model two quotients round to the
\* same float exactly when their fractions are equal
PyFloat(num, den) == [type |-> "float", num |-> num \div gcd(num, den),
                                         den |-> den \div gcd(num, den)]

\* a / b of two ints (b = 0 raises ZeroDivisionError)
truediv(a, b) ==
  IF b = 0 THEN [exc |-> "ZeroDivisionError"] ELSE [exc |-> "", value |-> PyFloat(a, b)]

\* average_risk with the floor division  //
average_risk_FloorDiv(stats) ==
  IF stats.total_interactions = 0 THEN [exc |-> "", value |-> PyFloat(0, 1)]
  ELSE [exc |-> "", value |-> PyFloat(stats.total_risk_score \div stats.total_interactions, 1)]

\* AgentStatistics.average_risk
average_risk(stats) ==
  IF stats.total_interactions = 0 THEN [exc |-> "", value |-> PyFloat(0, 1)]
  ELSE truediv(stats.total_risk_score, stats.total_interactions)

\* stop_rate that tests stops_triggered instead of the claims
stop_rate_TestsStops(stats) ==
  IF stats.stops_triggered = 0 THEN [exc |-> "", value |-> PyFloat(1, 1)]
  ELSE truediv(stats.stops_triggered, stats.price_claims + stats.legal_claims)

\* AgentStatistics.stop_rate
stop_rate(stats) ==
  LET claims == stats.price_claims + stats.legal_claims
  IN IF claims = 0 THEN [exc |-> "", value |-> PyFloat(1, 1)]
     ELSE truediv(stats.stops_triggered, claims)

\* the table built by AgentLogScorer.__init__: no entries
EmptyTable == [k \in {} |-> 0]

\* __missing__ with a factory that hands out one shared AgentStatistics
missing_SharedInstance(table, objects, key) ==
  [ agent_stats |-> [k \in (DOMAIN table) \cup {key} |-> 1],
    heap |-> IF Len(objects) = 0
             THEN <<AgentStatistics(PyStr(txt_unknown))>> ELSE objects,
    ref |-> 1 ]

\* defaultdict.__missing__ with the factory of __init__: a new object is
\* allocated and stored under the key.  The table maps a key to a
\* reference (an index of the heap of AgentStatistics objects).
__missing__(table, objects, key) ==
  [ agent_stats |-> [k \in (DOMAIN table) \cup {key} |->
                       IF k = key THEN Len(objects) + 1 ELSE table[k]],
    heap |-> Append(objects, AgentStatistics(PyStr(txt_unknown))),
    ref |-> Len(objects) + 1 ]

\* self._agent_stats[key]
__getitem__(table, objects, key) ==
  IF key \in DOMAIN table
  THEN [agent_stats |-> table, heap |-> objects, ref |-> table[key]]
  ELSE __missing__(table, objects, key)

\* the assignments of _update_statistics without the one to agent_id
Observe_KeepAgentId(stats, result) ==
  LET s2 == [stats EXCEPT !.total_interactions = @ + 1]
      s3 == [s2 EXCEPT !.total_risk_score = @ + result.risk]
      s4 == [s3 EXCEPT !.risk_levels[result.risk_level] = @ + 1]
      s5 == IF result.price_claim THEN [s4 EXCEPT !.price_claims = @ + 1] ELSE s4
      s6 == IF result.legal_claim THEN [s5 EXCEPT !.legal_claims = @ + 1] ELSE s5
      s7 == IF result.stop_triggered THEN [s6 EXCEPT !.stops_triggered = @ + 1] ELSE s6
      s8 == IF result.placeholder_used THEN [s7 EXCEPT !.placeholders_used = @ + 1] ELSE s7
      s9 == IF is_critical(result) THEN [s8 EXCEPT !.critical_incidents = @ + 1] ELSE s8
  IN s9

\* the assignments of _update_statistics to the looked-up object
Observe(stats, result) ==
  LET s1 == [stats EXCEPT !.agent_id = result.agent_id]
      s2 == [s1 EXCEPT !.total_interactions = @ + 1]
      s3 == [s2 EXCEPT !.total_risk_score = @ + result.risk]
      s4 == [s3 EXCEPT !.risk_levels[result.risk_level] = @ + 1]
      s5 == IF result.price_claim THEN [s4 EXCEPT !.price_claims = @ + 1] ELSE s4
      s6 == IF result.legal_claim THEN [s5 EXCEPT !.legal_claims = @ + 1] ELSE s5
      s7 == IF result.stop_triggered THEN [s6 EXCEPT !.stops_triggered = @ + 1] ELSE s6
      s8 == IF result.placeholder_used THEN [s7 EXCEPT !.placeholders_used = @ + 1] ELSE s7
      s9 == IF is_critical(result) THEN [s8 EXCEPT !.critical_incidents = @ + 1] ELSE s8
  IN s9

\* AgentLogScorer._update_statistics, called by one thread: the table and
\* the heap after the call, or the TypeError of an unhashable agent_id
_update_statistics(table, objects, result) ==
  IF ~Hashable(result.agent_id) THEN [exc |-> "TypeError"]
  ELSE LET g == __getitem__(table, objects, result.agent_id)
       IN [ exc |-> "",
            agent_stats |-> g.agent_stats,
            heap |-> [g.heap EXCEPT ![g.ref] = Observe(g.heap[g.ref], result)] ]

\* round(x, 2) of a non-negative float: the nearest multiple of 0.01, a tie
\* going to the even one
round2(x) ==
  LET q == (100 * x.num) \div x.den
      rem == (100 * x.num) % x.den
      h == IF 2 * rem > x.den THEN q + 1
           ELSE IF 2 * rem = x.den THEN q + (q % 2)
           ELSE q
  IN PyFloat(h, 100)

RECURSIVE TotalRisk(_)
\* total_risk after the loop of get_summary
TotalRisk(rs) == IF Len(rs) = 0 THEN 0 ELSE Head(rs).risk + TotalRisk(Tail(rs))

\* risk_counts after the loop of get_summary: a defaultdict(int) that holds
\* the levels met
RiskCounts(rs) ==
  [level \in {rs[i].risk_level : i \in 1..Len(rs)} |->
     Cardinality({i \in 1..Len(rs) : rs[i].risk_level = level})]

\* critical_results that takes in every result
CriticalResults_Every(rs) ==
  [i \in 1..Len(rs) |-> [agent_id |-> rs[i].agent_id, risk_level |-> rs[i].risk_level,
                          violations |-> rs[i].violations]]

RECURSIVE CriticalResults(_)
\* critical_results after the loop of get_summary
CriticalResults(rs) ==
  IF Len(rs) = 0 THEN <<>>
  ELSE (IF is_critical(Head(rs))
        THEN <<[agent_id |-> Head(rs).agent_id, risk_level |-> Head(rs).risk_level,
                violations |-> Head(rs).violations]>>
        ELSE <<>>)
       \o CriticalResults(Tail(rs))

txt_KeineErgebnisse == "Keine Ergebnisse"

\* get_summary without the test of the empty list
get_summary_NoGuard(rs) ==
  LET avg == truediv(TotalRisk(rs), Len(rs))
  IN IF avg.exc # "" THEN [exc |-> avg.exc]
     ELSE [ exc |-> "",
            value |-> [ total |-> Len(rs),
                        average_risk |-> round2(avg.value),
                        risk_distribution |-> RiskCounts(rs),
                        critical_count |-> Len(CriticalResults(rs)),
                        critical_incidents |-> CriticalResults(rs),
                        agents_analyzed |-> Cardinality({rs[i].agent_id : i \in 1..Len(rs)}) ] ]

\* get_summary that counts one agent per result
get_summary_AgentPerResult(rs) ==
  IF Len(rs) = 0
  THEN [exc |-> "", value |-> [total |-> 0, message |-> txt_KeineErgebnisse]]
  ELSE [ exc |-> "",
         value |-> [ total |-> Len(rs),
                     average_risk |-> round2(truediv(TotalRisk(rs), Len(rs)).value),
                     risk_distribution |-> RiskCounts(rs),
                     critical_count |-> Len(CriticalResults(rs)),
                     critical_incidents |-> CriticalResults(rs),
                     agents_analyzed |-> Len(rs) ] ]

\* AgentLogScorer.get_summary: the summary returned, or the error raised by
\* the division or by set() of an unhashable agent_id
get_summary(rs) ==
  IF Len(rs) = 0
  THEN [exc |-> "", value |-> [total |-> 0, message |-> txt_KeineErgebnisse]]
  ELSE LET avg == truediv(TotalRisk(rs), Len(rs))
       IN IF avg.exc # "" THEN [exc |-> avg.exc]
          ELSE IF \E i \in 1..Len(rs) : ~Hashable(rs[i].agent_id)
          THEN [exc |-> "TypeError"]
          ELSE [ exc |-> "",
                 value |-> [ total |-> Len(rs),
                             average_risk |-> round2(avg.value),
                             risk_distribution |-> RiskCounts(rs),
                             critical_count |-> Len(CriticalResults(rs)),
                             critical_incidents |-> CriticalResults(rs),
                             agents_analyzed |->
                               Cardinality({rs[i].agent_id : i \in 1..Len(rs)}) ] ]

----------------------------------------------------------------------------
(* Bounds and inputs *)

\* the most results a caller collects between two resets
MaxResults == 2
\* thresholds of the enumerated configurations range over -1..MaxThreshold
MaxThreshold == 2
\* placeholder_bonus of the enumerated configurations ranges over -3..MaxBonus
MaxBonus == 1
\* the scores handed to _get_risk_level directly range over 0..MaxScore
MaxScore == 4
\* the most files of a directory
MaxFiles == 2

ThresholdRange == (0 - 1)..MaxThreshold
BonusRange == (0 - 3)..MaxBonus
ScoreRange == 0..MaxScore

\* a key that a dict does not hold
Absent == [type |-> "absent"]

\* one item of a dict literal, or nothing when the key is left out
Item(key, v) == IF v = Absent THEN <<>> ELSE << <<key, v>> >>

\* the decoded log {"agent_id": .., "transcript": .., "stop_triggered": ..,
\* "result": .., "contact_name": ..}, each key optional
Log(agent_id, transcript, stop_triggered, result, contact_name) ==
  PyDict(Item("agent_id", agent_id) \o Item("transcript", transcript)
         \o Item("stop_triggered", stop_triggered) \o Item("result", result)
         \o Item("contact_name", contact_name))

TextLine(s) == PyDict(<< <<"text", PyStr(s)>> >>)

\* transcripts a valid log can carry
ts_empty == PyList(<<>>)
ts_hello == PyList(<<TextLine(txt_hello)>>)
ts_price == PyList(<<PyStr(txt_price)>>)
ts_legal == PyList(<<TextLine(txt_legal), PyInt(7), PyDict(<<>>)>>)
ts_both == PyList(<<TextLine(txt_preis), PyStr(txt_both)>>)
ts_law == PyList(<<TextLine(txt_law)>>)
ts_null_text == PyList(<<PyDict(<< <<"text", PyNone>> >>)>>)

AgentIdValues == {PyStr(txt_A1), PyStr(txt_A2), PyNone, PyList(<<>>), Absent}
TranscriptValues ==
  {Absent, ts_empty, ts_hello, ts_price, ts_legal, ts_both, ts_law, ts_null_text,
   PyStr(txt_price), PyNone}
ValidTranscripts == {Absent, ts_hello, ts_price, ts_legal, ts_both}
StopValues == {Absent, PyBool(TRUE), PyStr(txt_False), PyInt(0)}
ResultValues ==
  {Absent, PyStr(STOP_REQUIRED), PyStr(txt_lower_marker), PyList(<<PyStr(PLACEHOLDER)>>)}

\* the inputs of the single-call specification
WideLogs ==
  { Log(PyStr(txt_A1), t, s, r, Absent) :
      t \in ValidTranscripts, s \in StopValues, r \in ResultValues }
  \cup { Log(a, t, Absent, Absent, Absent) : a \in AgentIdValues, t \in TranscriptValues }
  \cup {PyStr(txt_ok), PyList(<<>>), PyNone, PyInt(1),
        Log(PyStr(txt_A1), ts_price, PyBool(FALSE), PyStr(txt_embedded), PyStr(txt_Anna))}

\* the inputs of the scorer specification
Logs ==
  { Log(PyStr(txt_A1), ts_hello, Absent, Absent, PyStr(txt_Anna)),
    Log(PyStr(txt_A1), ts_price, PyBool(FALSE), Absent, Absent),
    Log(PyStr(txt_A1), ts_both, Absent, PyStr(txt_lower_marker), Absent),
    Log(PyStr(txt_A2), ts_both, PyBool(TRUE), Absent, Absent),
    Log(PyStr(txt_A2), ts_legal, PyBool(TRUE), PyStr(STOP_REQUIRED), Absent),
    Log(PyStr(txt_A2), Absent, Absent, PyStr(txt_embedded), Absent),
    Log(PyNone, ts_price, Absent, PyList(<<PyStr(PLACEHOLDER)>>), Absent),
    Log(PyList(<<>>), ts_hello, Absent, Absent, Absent),
    Log(PyStr(txt_A1), ts_null_text, Absent, Absent, Absent),
    Log(PyStr(txt_A1), PyNone, Absent, Absent, Absent),
    Log(Absent, ts_price, Absent, Absent, Absent),
    PyStr(txt_ok) }

\* a flow_validator rule set
RuleSet ==
  PyDict(<< <<"forbidden", PyList(<<PyStr(rule_price_forbidden), PyStr(rule_other),
                                     PyStr(rule_legal_forbidden)>>)>>,
            <<"must_include", PyList(<<PyStr(rule_legal_must), PyStr(rule_price_must)>>)>> >>)

ThresholdMaps ==
  { [low |-> l, medium |-> m, high |-> h, critical |-> 3] :
      l \in ThresholdRange, m \in ThresholdRange, h \in ThresholdRange }
  \cup { [medium |-> m, critical |-> 3] : m \in ThresholdRange }
  \cup { [low |-> l, high |-> l] : l \in ThresholdRange }

\* the configurations of the single-call specification
WideConfigs ==
  { [DefaultConfig EXCEPT !.risk_thresholds = t, !.placeholder_bonus = b] :
      t \in ThresholdMaps, b \in BonusRange }
  \cup { [DefaultConfig EXCEPT !.yaml_rules = RuleSet],
         [DefaultConfig EXCEPT !.yaml_rules = PyDict(<<>>)],
         [DefaultConfig EXCEPT !.price_keywords = <<kw_upper_eur, kw_euro, kw_upper_eur>>,
                               !.legal_keywords = <<kw_law>>,
                               !.placeholder_bonus = MaxBonus],
         [DefaultConfig EXCEPT !.price_keywords = <<>>, !.legal_keywords = <<kw_law, kw_legal>>] }

\* the configurations of the scorer specification
Configs ==
  { DefaultConfig,
    [DefaultConfig EXCEPT !.yaml_rules = RuleSet],
    [DefaultConfig EXCEPT !.risk_thresholds = [low |-> 0, medium |-> 0, high |-> 1, critical |-> 3],
                          !.placeholder_bonus = MaxBonus],
    [DefaultConfig EXCEPT !.risk_thresholds = [low |-> 1, medium |-> 0, high |-> 2, critical |-> 3],
                          !.placeholder_bonus = 0 - MaxBonus] }

----------------------------------------------------------------------------
(* State *)

VARIABLES
  config,       \* self.config of the scorer
  agent_stats,  \* self._agent_stats: key -> reference to an AgentStatistics
  heap,         \* the AgentStatistics objects, by reference
  results,      \* the results returned to the caller since the last reset
  outcome,      \* the last call: its operation, argument and what it returned or raised
  mode,         \* the driver in use: "sync", "async", "file" (score_file) or "none"
  files,        \* the files of the directory, in the order of their names
  pc,           \* the position of the batch driver or of main
  idx,          \* the index of the file the loop of score_directory is at
  task          \* one record per file: the worker thread of score_file_async

batchVars == <<mode, files, pc, idx, task>>
vars == <<config, agent_stats, heap, results, outcome, mode, files, pc, idx, task>>

NoCall == [op |-> "none"]

\* the aggregate the table holds for a key
StatsOf(key) == heap[agent_stats[key]]

----------------------------------------------------------------------------
(* Operations of AgentLogScorer *)

\* scorer.validate_log(log)
ValidateLog(log) ==
  /\ outcome' = [op |-> "validate_log", arg |-> log, kind |-> "return",
                 valid |-> validate_log(log)]
  /\ UNCHANGED <<config, agent_stats, heap, results, batchVars>>

\* scorer._get_risk_level(risk_score)
GetRiskLevel(risk_score) ==
  /\ outcome' = [op |-> "_get_risk_level", arg |-> risk_score, kind |-> "return",
                 level |-> _get_risk_level(config, risk_score)]
  /\ UNCHANGED <<config, agent_stats, heap, results, batchVars>>

\* scorer.score_log(log): validation, scoring, violations, statistics
ScoreLog(log) ==
  LET b == BuildResult(config, log)
  IN IF b.kind = "raise"
     THEN /\ outcome' = [op |-> "score_log", arg |-> log, kind |-> "raise",
                         exc |-> b.exc, msg |-> b.msg]
          /\ UNCHANGED <<config, agent_stats, heap, results, batchVars>>
     ELSE LET u == _update_statistics(agent_stats, heap, b.value)
          IN IF u.exc # ""
             THEN /\ outcome' = [op |-> "score_log", arg |-> log, kind |-> "raise",
                                 exc |-> u.exc, msg |-> <<>>]
                  /\ UNCHANGED <<config, agent_stats, heap, results, batchVars>>
             ELSE /\ agent_stats' = u.agent_stats
                  /\ heap' = u.heap
                  /\ results' = Append(results, b.value)
                  /\ outcome' = [op |-> "score_log", arg |-> log, kind |-> "return",
                                 value |-> b.value]
                  /\ UNCHANGED <<config, batchVars>>

\* scorer.get_agent_statistics(): a shallow copy of the table
GetAgentStatistics ==
  /\ outcome' = [op |-> "get_agent_statistics", kind |-> "return",
                 stats |-> [k \in DOMAIN agent_stats |-> agent_stats[k]]]
  /\ UNCHANGED <<config, agent_stats, heap, results, batchVars>>

\* reset_statistics without the clear() of the table
ResetStatistics_NoClear ==
  /\ results' = <<>>
  /\ outcome' = [op |-> "reset_statistics", kind |-> "return",
                 cleared |-> Cardinality(DOMAIN agent_stats)]
  /\ UNCHANGED <<config, agent_stats, heap, batchVars>>

\* scorer.reset_statistics(): clear() removes every entry of the table; the
\* removed objects are no longer reachable through the table and the caller
\* starts a new collection of results.  The outcome records how many
\* entries clear() removed.
ResetStatistics ==
  /\ agent_stats' = EmptyTable
  /\ heap' = <<>>
  /\ results' = <<>>
  /\ outcome' = [op |-> "reset_statistics", kind |-> "return",
                 cleared |-> Cardinality(DOMAIN agent_stats)]
  /\ UNCHANGED <<config, batchVars>>

\* scorer.get_summary(results) on the results the caller has collected
GetSummary ==
  /\ outcome' = [op |-> "get_summary", collection |-> results,
                 summary |-> get_summary(results)]
  /\ UNCHANGED <<config, agent_stats, heap, results, batchVars>>

----------------------------------------------------------------------------
(* The scorer: any sequence of calls on one AgentLogScorer *)

Init ==
  /\ config \in Configs
  /\ agent_stats = EmptyTable
  /\ heap = <<>>
  /\ results = <<>>
  /\ outcome = NoCall
  /\ mode = "none"
  /\ files = <<>>
  /\ pc = "idle"
  /\ idx = 0
  /\ task = <<>>

Next ==
  \/ \E log \in Logs : Len(results) < MaxResults /\ ScoreLog(log)
  \/ \E log \in Logs : ValidateLog(log)
  \/ \E s \in ScoreRange : GetRiskLevel(s)
  \/ GetAgentStatistics
  \/ GetSummary
  \/ ResetStatistics

Spec == Init /\ [][Next]_vars

----------------------------------------------------------------------------
(* One call on a fresh scorer, over the wide range of configurations *)

InitPure ==
  /\ config \in WideConfigs
  /\ agent_stats = EmptyTable
  /\ heap = <<>>
  /\ results = <<>>
  /\ outcome = NoCall
  /\ mode = "none"
  /\ files = <<>>
  /\ pc = "idle"
  /\ idx = 0
  /\ task = <<>>

NextPure ==
  \/ \E log \in WideLogs : outcome = NoCall /\ ScoreLog(log)
  \/ \E log \in WideLogs : outcome = NoCall /\ ValidateLog(log)
  \/ \E s \in ScoreRange : outcome = NoCall /\ GetRiskLevel(s)

SpecPure == InitPure /\ [][NextPure]_vars

----------------------------------------------------------------------------
(* The risk levels: classification of a score and comparison of two levels,
   over the wide range of configurations *)

\* a < b, a <= b, a > b, a >= b and a == b of two risk levels
CompareLevels(a, b) ==
  /\ outcome' = [op |-> "compare", a |-> a, b |-> b,
                 lt |-> __lt__(a, b), le |-> __le__(a, b),
                 gt |-> __gt__(a, b), ge |-> __ge__(a, b), eq |-> __eq__(a, b)]
  /\ UNCHANGED <<config, agent_stats, heap, results, batchVars>>

NextLevels ==
  \/ \E s \in ScoreRange : GetRiskLevel(s)
  \/ \E a, b \in RiskLevels : CompareLevels(a, b)

SpecLevels == InitPure /\ [][NextLevels]_vars

----------------------------------------------------------------------------
(* The batch drivers: score_directory and score_directory_async *)

\* the files a directory can hold: one that cannot be opened, one that is
\* not JSON, and decodable ones
f_unreadable == [json |-> "unreadable"]
f_undecodable == [json |-> "undecodable"]
f_invalid == [json |-> "ok", log |-> Log(Absent, ts_price, Absent, Absent, Absent)]
f_null_text == [json |-> "ok", log |-> Log(PyStr(txt_A1), ts_null_text, Absent, Absent, Absent)]
f_price == [json |-> "ok", log |-> Log(PyStr(txt_A1), ts_price, Absent, Absent, Absent)]
f_both == [json |-> "ok", log |-> Log(PyStr(txt_A2), ts_both, Absent, Absent, Absent)]

FileSet == {f_unreadable, f_undecodable, f_invalid, f_null_text, f_price, f_both}

Directories == UNION { [1..n -> FileSet] : n \in 0..MaxFiles }

\* files that main can be handed as well: a path that does not exist, a
\* file whose bytes are not UTF-8, and logs of the levels LOW and CRITICAL
f_missing == [json |-> "missing"]
f_not_utf8 == [json |-> "not_utf8"]
f_hello == [json |-> "ok", log |-> Log(PyStr(txt_A1), ts_hello, Absent, Absent, Absent)]
f_marked == [json |-> "ok",
             log |-> Log(PyStr(txt_A2), ts_both, Absent, PyStr(STOP_REQUIRED), Absent)]

\* the classes an exception of the class is an instance of
Bases(exc) ==
  {exc} \cup (IF exc \in {"JSONDecodeError", "UnicodeDecodeError"} THEN {"ValueError"}
              ELSE IF exc \in {"FileNotFoundError", "PermissionError"} THEN {"OSError"}
              ELSE {})
        \cup {"Exception"}

\* AgentLogScorer.score_file up to the ScoreResult: open() raises for a path
\* that does not exist and for a file that cannot be read, f.read() inside
\* json.load() for bytes that are not UTF-8, json.load() for text that is
\* not JSON
ScoreFileBuild(cfg, file) ==
  IF file.json = "missing"
  THEN [kind |-> "raise", exc |-> "FileNotFoundError", msg |-> <<>>]
  ELSE IF file.json = "unreadable"
  THEN [kind |-> "raise", exc |-> "PermissionError", msg |-> <<>>]
  ELSE IF file.json = "not_utf8"
  THEN [kind |-> "raise", exc |-> "UnicodeDecodeError", msg |-> <<>>]
  ELSE IF file.json = "undecodable"
  THEN [kind |-> "raise", exc |-> "JSONDecodeError", msg |-> <<>>]
  ELSE BuildResult(cfg, file.log)

\* the clause  except (json.JSONDecodeError, ValueError)  of score_directory
Caught(exc) == "JSONDecodeError" \in Bases(exc) \/ "ValueError" \in Bases(exc)

\* one iteration of the loop of score_directory: score_file on the next
\* file; a caught error skips the file, any other error leaves the loop
ScoreDirectoryStep ==
  /\ mode = "sync" /\ pc = "loop" /\ idx <= Len(files)
  /\ LET b == ScoreFileBuild(config, files[idx])
         u == IF b.kind = "return"
              THEN _update_statistics(agent_stats, heap, b.value)
              ELSE [exc |-> b.exc]
     IN IF u.exc = ""
        THEN /\ agent_stats' = u.agent_stats
             /\ heap' = u.heap
             /\ results' = Append(results, b.value)
             /\ idx' = idx + 1
             /\ UNCHANGED <<config, outcome, mode, files, pc, task>>
        ELSE IF Caught(u.exc)
        THEN /\ idx' = idx + 1
             /\ UNCHANGED <<config, agent_stats, heap, results, outcome, mode, files, pc, task>>
        ELSE /\ outcome' = [op |-> "score_directory", kind |-> "raise", exc |-> u.exc]
             /\ pc' = "done"
             /\ UNCHANGED <<config, agent_stats, heap, results, mode, files, idx, task>>

\* the end of score_directory: the list of results is returned
ScoreDirectoryReturn ==
  /\ mode = "sync" /\ pc = "loop" /\ idx > Len(files)
  /\ outcome' = [op |-> "score_directory", kind |-> "return", results |-> results]
  /\ pc' = "done"
  /\ UNCHANGED <<config, agent_stats, heap, results, mode, files, idx, task>>

RECURSIVE score_directory_from(_, _, _, _, _)
\* the loop of score_directory over the files still to score, with the
\* table, the objects and the results so far
score_directory_from(cfg, dir, table, objects, rs) ==
  IF Len(dir) = 0
  THEN [kind |-> "return", results |-> rs, agent_stats |-> table, heap |-> objects]
  ELSE LET b == ScoreFileBuild(cfg, Head(dir))
           u == IF b.kind = "return"
                THEN _update_statistics(table, objects, b.value)
                ELSE [exc |-> b.exc]
       IN IF u.exc = ""
          THEN score_directory_from(cfg, Tail(dir), u.agent_stats, u.heap,
                                    Append(rs, b.value))
          ELSE IF Caught(u.exc)
          THEN score_directory_from(cfg, Tail(dir), table, objects, rs)
          ELSE [kind |-> "raise", exc |-> u.exc, agent_stats |-> table, heap |-> objects]

\* AgentLogScorer.score_directory on a scorer that has scored nothing: what
\* the call returns or raises, and the statistics it leaves
score_directory(cfg, dir) == score_directory_from(cfg, dir, EmptyTable, <<>>, <<>>)

\* score_directory_async creates one score_file_async per file; each runs
\* score_file in a thread of the default executor
AsyncSubmit ==
  /\ mode = "async" /\ pc = "loop"
  /\ task' = [i \in 1..Len(files) |-> [pc |-> "pending"]]
  /\ pc' = "gather"
  /\ UNCHANGED <<config, agent_stats, heap, results, outcome, mode, files, idx>>

\* the statements of _update_statistics after the lookup, one per counter
Lines ==
  <<"total_interactions", "total_risk_score", "risk_levels", "price_claims",
    "legal_claims", "stops_triggered", "placeholders_used", "critical_incidents">>

\* the condition guarding the statement
Applies(line, result) ==
  CASE line = "price_claims" -> result.price_claim
    [] line = "legal_claims" -> result.legal_claim
    [] line = "stops_triggered" -> result.stop_triggered
    [] line = "placeholders_used" -> result.placeholder_used
    [] line = "critical_incidents" -> is_critical(result)
    [] OTHER -> TRUE

\* the amount the statement adds
Delta(line, result) == IF line = "total_risk_score" THEN result.risk ELSE 1

\* the value the statement reads
ReadCounter(stats, line, result) ==
  IF line = "risk_levels" THEN stats.risk_levels[result.risk_level] ELSE stats[line]

\* the object after the statement has stored v
WriteCounter(stats, line, result, v) ==
  IF line = "risk_levels"
  THEN [stats EXCEPT !.risk_levels[result.risk_level] = v]
  ELSE [stats EXCEPT ![line] = v]

RECURSIVE NextLine(_, _)
\* the first statement from position n on whose condition holds for the
\* result, Len(Lines) + 1 when there is none; the conditions read the
\* result only, which belongs to the thread
NextLine(n, result) ==
  IF n > Len(Lines) THEN n
  ELSE IF Applies(Lines[n], result) THEN n
  ELSE NextLine(n + 1, result)

\* a worker thread runs score_file up to the lookup
\* stats = self._agent_stats[result.agent_id] of _update_statistics; what
\* precedes the lookup reads the file and the configuration only.  A
\* missing key enters __missing__, which calls the factory.
WorkerGetItem(i) ==
  /\ pc = "gather" /\ task[i].pc = "pending"
  /\ LET b == ScoreFileBuild(config, files[i])
     IN task' = [task EXCEPT ![i] =
                   IF b.kind = "raise"
                   THEN [pc |-> "done", kind |-> "raise", exc |-> b.exc]
                   ELSE IF ~Hashable(b.value.agent_id)
                   THEN [pc |-> "done", kind |-> "raise", exc |-> "TypeError"]
                   ELSE IF b.value.agent_id \in DOMAIN agent_stats
                   THEN [pc |-> "agent_id", result |-> b.value,
                         ref |-> agent_stats[b.value.agent_id]]
                   ELSE [pc |-> "factory", result |-> b.value]]
  /\ UNCHANGED <<config, agent_stats, heap, results, outcome, mode, files, pc, idx>>

\* __missing__ after the factory has returned: the new object is stored
\* under the key, replacing an entry another thread stored meanwhile
WorkerFactory(i) ==
  /\ pc = "gather" /\ task[i].pc = "factory"
  /\ LET m == __missing__(agent_stats, heap, task[i].result.agent_id)
     IN /\ agent_stats' = m.agent_stats
        /\ heap' = m.heap
        /\ task' = [task EXCEPT ![i] =
                      [pc |-> "agent_id", result |-> task[i].result, ref |-> m.ref]]
  /\ UNCHANGED <<config, results, outcome, mode, files, pc, idx>>

\* stats.agent_id = result.agent_id
WorkerSetAgentId(i) ==
  /\ pc = "gather" /\ task[i].pc = "agent_id"
  /\ heap' = [heap EXCEPT ![task[i].ref].agent_id = task[i].result.agent_id]
  /\ task' = [task EXCEPT ![i] =
                [pc |-> "load", result |-> task[i].result, ref |-> task[i].ref,
                 line |-> NextLine(1, task[i].result), reg |-> 0]]
  /\ UNCHANGED <<config, agent_stats, results, outcome, mode, files, pc, idx>>

\* the read of  counter += n
WorkerLoad(i) ==
  /\ pc = "gather" /\ task[i].pc = "load"
  /\ task' = [task EXCEPT ![i] =
                [@ EXCEPT !.pc = "store",
                          !.reg = ReadCounter(heap[task[i].ref], Lines[task[i].line],
                                              task[i].result)]]
  /\ UNCHANGED <<config, agent_stats, heap, results, outcome, mode, files, pc, idx>>

\* the write of  counter += n; after the last one score_log and score_file
\* return the result to the future
WorkerStore(i) ==
  /\ pc = "gather" /\ task[i].pc = "store"
  /\ LET line == Lines[task[i].line]
         r == task[i].result
         next == NextLine(task[i].line + 1, r)
     IN /\ heap' = [heap EXCEPT ![task[i].ref] =
                      WriteCounter(@, line, r, task[i].reg + Delta(line, r))]
        /\ task' = [task EXCEPT ![i] =
                      IF next > Len(Lines)
                      THEN [pc |-> "done", kind |-> "return", value |-> r]
                      ELSE [@ EXCEPT !.pc = "load", !.line = next]]
  /\ UNCHANGED <<config, agent_stats, results, outcome, mode, files, pc, idx>>

RECURSIVE FilterValid(_)
\* the loop of score_directory_async that drops the exceptions
FilterValid(gathered) ==
  IF Len(gathered) = 0 THEN <<>>
  ELSE (IF Head(gathered).kind = "raise" THEN <<>> ELSE <<Head(gathered).value>>)
       \o FilterValid(Tail(gathered))

\* the orders in which glob can yield n files
Orders(n) == { p \in [1..n -> 1..n] : \A a, b \in 1..n : a # b => p[a] # p[b] }

\* gather(*tasks, return_exceptions=True) has every outcome; the exceptions
\* are filtered out and the valid results returned, in the order of glob
AsyncGather ==
  /\ mode = "async" /\ pc = "gather"
  /\ \A i \in 1..Len(files) : task[i].pc = "done"
  /\ \E p \in Orders(Len(files)) :
       LET valid_results == FilterValid([j \in 1..Len(files) |-> task[p[j]]])
       IN /\ results' = valid_results
          /\ outcome' = [op |-> "score_directory_async", kind |-> "return",
                         results |-> valid_results]
  /\ pc' = "done"
  /\ UNCHANGED <<config, agent_stats, heap, mode, files, idx, task>>

InitBatch ==
  /\ config = DefaultConfig
  /\ agent_stats = EmptyTable
  /\ heap = <<>>
  /\ results = <<>>
  /\ outcome = NoCall
  /\ mode \in {"sync", "async"}
  /\ files \in Directories
  /\ pc = "loop"
  /\ idx = 1
  /\ task = <<>>

NextBatch ==
  \/ ScoreDirectoryStep
  \/ ScoreDirectoryReturn
  \/ AsyncSubmit
  \/ \E i \in 1..Len(files) : WorkerGetItem(i)
  \/ \E i \in 1..Len(files) : WorkerFactory(i)
  \/ \E i \in 1..Len(files) : WorkerSetAgentId(i)
  \/ \E i \in 1..Len(files) : WorkerLoad(i)
  \/ \E i \in 1..Len(files) : WorkerStore(i)
  \/ AsyncGather

SpecBatch == InitBatch /\ [][NextBatch]_vars

----------------------------------------------------------------------------
(* The aggregate of hand-built results: _update_statistics, the properties
   of AgentStatistics and get_summary called directly *)

\* the most results observed between two resets
MaxObservations == 4

txt_TEST == <<"T", "E", "S", "T">>

\* the configuration the hand-built results are results of
StatConfig == [DefaultConfig EXCEPT !.placeholder_bonus = 1, !.yaml_rules = RuleSet]

\* ScoreResult(...) with the risk, level and violations score_log computes
\* from the flags
StatResult(agent_id, price_claim, legal_claim, stop_triggered, placeholder_used) ==
  LET risk_score == ClampScore(RawScore(StatConfig, price_claim, legal_claim,
                                        stop_triggered, placeholder_used))
      result == [ agent_id |-> agent_id,
                  contact |-> PyNone,
                  timestamp |-> PyNone,
                  price_claim |-> price_claim,
                  price_keywords_found |-> <<>>,
                  legal_claim |-> legal_claim,
                  legal_keywords_found |-> <<>>,
                  stop_triggered |-> stop_triggered,
                  placeholder_used |-> placeholder_used,
                  risk |-> risk_score,
                  risk_level |-> _get_risk_level(StatConfig, risk_score),
                  violations |-> <<>> ]
  IN [result EXCEPT !.violations = _check_violations(StatConfig, result)]

\* risks 0, 1, 2 and 3 for agent A1, 0 and 2 for agent A2, and a result
\* whose agent_id is a list
StatResults ==
  { StatResult(PyStr(txt_A1), FALSE, FALSE, TRUE, FALSE),
    StatResult(PyStr(txt_A1), TRUE, FALSE, FALSE, FALSE),
    StatResult(PyStr(txt_A1), TRUE, TRUE, FALSE, FALSE),
    StatResult(PyStr(txt_A1), TRUE, TRUE, FALSE, TRUE),
    StatResult(PyStr(txt_A2), FALSE, TRUE, TRUE, FALSE),
    StatResult(PyStr(txt_A2), TRUE, TRUE, FALSE, FALSE),
    StatResult(PyList(<<>>), FALSE, FALSE, FALSE, FALSE) }

\* the AgentStatistics objects at hand: the entries of the table and a
\* newly constructed AgentStatistics(agent_id="TEST")
StatsObjects ==
  { StatsOf(k) : k \in DOMAIN agent_stats } \cup { AgentStatistics(PyStr(txt_TEST)) }

\* scorer._update_statistics(result) with a hand-built result, which the
\* caller then adds to its collection
UpdateStatistics(result) ==
  LET u == _update_statistics(agent_stats, heap, result)
  IN IF u.exc # ""
     THEN /\ outcome' = [op |-> "_update_statistics", kind |-> "raise", exc |-> u.exc]
          /\ UNCHANGED <<config, agent_stats, heap, results, batchVars>>
     ELSE /\ agent_stats' = u.agent_stats
          /\ heap' = u.heap
          /\ results' = Append(results, result)
          /\ outcome' = [op |-> "_update_statistics", kind |-> "return"]
          /\ UNCHANGED <<config, batchVars>>

\* stats.average_risk
AverageRisk(stats) ==
  /\ outcome' = [op |-> "average_risk", self |-> stats, number |-> average_risk(stats)]
  /\ UNCHANGED <<config, agent_stats, heap, results, batchVars>>

\* stats.stop_rate
StopRate(stats) ==
  /\ outcome' = [op |-> "stop_rate", self |-> stats, rate |-> stop_rate(stats)]
  /\ UNCHANGED <<config, agent_stats, heap, results, batchVars>>

InitStats ==
  /\ config = StatConfig
  /\ agent_stats = EmptyTable
  /\ heap = <<>>
  /\ results = <<>>
  /\ outcome = NoCall
  /\ mode = "none"
  /\ files = <<>>
  /\ pc = "idle"
  /\ idx = 0
  /\ task = <<>>

NextStats ==
  \/ \E result \in StatResults : Len(results) < MaxObservations /\ UpdateStatistics(result)
  \/ \E stats \in StatsObjects : AverageRisk(stats)
  \/ \E stats \in StatsObjects : StopRate(stats)
  \/ GetSummary
  \/ ResetStatistics

SpecStats == InitStats /\ [][NextStats]_vars

----------------------------------------------------------------------------
(* main: the command-line entry point, from the scorer it creates to the
   exit code it returns *)

\* the configuration of the scorer of main, loaded from the file of --config
MainConfig == [DefaultConfig EXCEPT !.placeholder_bonus = 1]

\* the files main is handed in single-file mode
MainFiles ==
  {f_missing, f_unreadable, f_not_utf8, f_undecodable, f_invalid, f_null_text,
   f_hello, f_price, f_both, f_marked}

\* the except clauses of main, in their order
ExceptCode(exc) ==
  IF "FileNotFoundError" \in Bases(exc) THEN 4
  ELSE IF "JSONDecodeError" \in Bases(exc) THEN 5
  ELSE IF "ValueError" \in Bases(exc) THEN 6
  ELSE 99

\* the exit code of single-file mode
LevelCode(risk_level) ==
  IF risk_level = "CRITICAL" THEN 3
  ELSE IF risk_level = "HIGH" THEN 2
  ELSE IF risk_level = "MEDIUM" THEN 1
  ELSE 0

\* summary.get("critical_count", 0)
CriticalCount(summary) ==
  IF "critical_count" \in DOMAIN summary THEN summary.critical_count ELSE 0

\* main in single-file mode: score_file on the path, then the exit code of
\* the level, or of the except clause that catches the error.  The alert
\* list and the printed report are output only.
MainSingleFile ==
  /\ mode = "file" /\ pc = "loop"
  /\ LET b == ScoreFileBuild(config, files[1])
         u == IF b.kind = "return"
              THEN _update_statistics(agent_stats, heap, b.value)
              ELSE [exc |-> b.exc]
     IN IF u.exc = ""
        THEN /\ agent_stats' = u.agent_stats
             /\ heap' = u.heap
             /\ results' = <<b.value>>
             /\ outcome' = [op |-> "main", exc |-> "", level |-> b.value.risk_level,
                            code |-> LevelCode(b.value.risk_level)]
        ELSE /\ outcome' = [op |-> "main", exc |-> u.exc, code |-> ExceptCode(u.exc)]
             /\ UNCHANGED <<agent_stats, heap, results>>
  /\ pc' = "exit"
  /\ UNCHANGED <<config, mode, files, idx, task>>

\* main in batch mode after the driver: the summary of the results and the
\* exit code of its critical_count, or of the except clause that catches
\* the error the driver raised
MainBatchExit ==
  /\ mode \in {"sync", "async"} /\ pc = "done"
  /\ IF outcome.kind = "raise"
     THEN outcome' = [op |-> "main", exc |-> outcome.exc, code |-> ExceptCode(outcome.exc)]
     ELSE LET s == get_summary(outcome.results)
          IN IF s.exc # ""
             THEN outcome' = [op |-> "main", exc |-> s.exc, code |-> ExceptCode(s.exc)]
             ELSE outcome' = [op |-> "main", exc |-> "", summary |-> s.value,
                              code |-> IF CriticalCount(s.value) > 0 THEN 1 ELSE 0]
  /\ pc' = "exit"
  /\ UNCHANGED <<config, agent_stats, heap, results, mode, files, idx, task>>

InitMain ==
  /\ config = MainConfig
  /\ agent_stats = EmptyTable
  /\ heap = <<>>
  /\ results = <<>>
  /\ outcome = NoCall
  /\ \/ mode = "file" /\ files \in { <<f>> : f \in MainFiles }
     \/ mode \in {"sync", "async"} /\ files \in Directories
  /\ pc = "loop"
  /\ idx = 1
  /\ task = <<>>

NextMain ==
  \/ MainSingleFile
  \/ MainBatchExit
  \/ ScoreDirectoryStep
  \/ ScoreDirectoryReturn
  \/ AsyncSubmit
  \/ \E i \in 1..Len(files) : WorkerGetItem(i)
  \/ \E i \in 1..Len(files) : WorkerFactory(i)
  \/ \E i \in 1..Len(files) : WorkerSetAgentId(i)
  \/ \E i \in 1..Len(files) : WorkerLoad(i)
  \/ \E i \in 1..Len(files) : WorkerStore(i)
  \/ AsyncGather

SpecMain == InitMain /\ [][NextMain]_vars

----------------------------------------------------------------------------
(* Loading the configuration: ScoringConfig.from_yaml on a file *)

\* the document {"keywords": .., "risk_thresholds": .., "scoring": ..,
\* "flow_validator": ..}, each key optional
YamlDocument(keywords, risk_thresholds, scoring, flow_validator) ==
  PyDict(Item("keywords", keywords) \o Item("risk_thresholds", risk_thresholds)
         \o Item("scoring", scoring) \o Item("flow_validator", flow_validator))

KeywordsValues ==
  { Absent, PyNone, PyDict(<<>>),
    PyDict(<< <<"price", PyList(<<PyStr(kw_upper_eur)>>)>>,
              <<"legal", PyList(<<PyStr(kw_law)>>)>> >>),
    PyDict(<< <<"price", PyList(<<>>)>> >>),
    PyStr(KeyChars["price"]) }

ThresholdValues ==
  { Absent,
    PyDict(<< <<"low", PyInt(0)>>, <<"medium", PyInt(0)>>, <<"high", PyInt(MaxThreshold)>> >>),
    PyInt(MaxThreshold) }

ScoringValues ==
  { Absent, PyNone, PyDict(<<>>),
    PyDict(<< <<"placeholder_bonus", PyInt(MaxBonus)>> >>),
    PyDict(<< <<"placeholder_bonus", PyStr(txt_ok)>> >>) }

FlowValues == { Absent, RuleSet, PyList(<<>>) }

\* what yaml.safe_load can return
YamlDocuments ==
  { YamlDocument(k, t, s, f) :
      k \in KeywordsValues, t \in ThresholdValues, s \in ScoringValues, f \in FlowValues }
  \cup { PyNone, PyInt(0), PyInt(MaxThreshold), PyBool(TRUE), PyStr(txt_ok),
         PyStr(KeyChars["keywords"]), PyList(<<>>), PyList(<<PyStr(KeyChars["keywords"])>>) }

\* the files from_yaml can be pointed at
YamlSources ==
  { [file |-> "missing"], [file |-> "unreadable"], [file |-> "malformed"] }
  \cup { [file |-> "ok", document |-> d] : d \in YamlDocuments }

\* ScoringConfig.from_yaml(yaml_path)
FromYaml(source) ==
  /\ outcome' = [op |-> "from_yaml", source |-> source, loaded |-> from_yaml(source)]
  /\ UNCHANGED <<config, agent_stats, heap, results, batchVars>>

InitConfig ==
  /\ config = DefaultConfig
  /\ agent_stats = EmptyTable
  /\ heap = <<>>
  /\ results = <<>>
  /\ outcome = NoCall
  /\ mode = "none"
  /\ files = <<>>
  /\ pc = "idle"
  /\ idx = 0
  /\ task = <<>>

NextConfig == \E source \in YamlSources : FromYaml(source)

SpecConfig == InitConfig /\ [][NextConfig]_vars

----------------------------------------------------------------------------
(* Keyword matching: _check_keywords called directly, as the legacy function
   check_keywords does *)

\* the longest keyword list handed to _check_keywords
MaxKeywords == 2

KeywordTexts == {<<>>, txt_hello, txt_price, txt_both, txt_legal, txt_preis, txt_law}

KeywordLists ==
  UNION { [1..n -> {kw_eurosign, kw_upper_eur, kw_euro, kw_law, kw_gesetz}] :
            n \in 0..MaxKeywords }

\* scorer._check_keywords(text, keywords)
CheckKeywords(text, keywords) ==
  /\ outcome' = [op |-> "_check_keywords", text |-> text, keywords |-> keywords,
                 matched |-> _check_keywords(text, keywords)]
  /\ UNCHANGED <<config, agent_stats, heap, results, batchVars>>

NextKeywords == \E text \in KeywordTexts, keywords \in KeywordLists : CheckKeywords(text, keywords)

SpecKeywords == InitConfig /\ [][NextKeywords]_vars

----------------------------------------------------------------------------
(* Properties *)

\* 1 when the condition holds and 0 otherwise
B(cond) == IF cond THEN 1 ELSE 0

ScoreLogReturned == outcome.op = "score_log" /\ outcome.kind = "return"

\* C1: the risk stored in the ScoreResult returned by score_log is never
\* negative, for every configuration and every valid log, however negative
\* the accumulation before the clamp is.
C1_ClampInvariant ==
  /\ ScoreLogReturned => outcome.value.risk >= 0
  /\ \A i \in 1..Len(results) : results[i].risk >= 0

\* a result whose accumulation before the clamp was -3 or less
C1_Witness ==
  /\ ScoreLogReturned
  /\ LET v == outcome.value
     IN /\ B(v.price_claim) + B(v.legal_claim) - B(v.stop_triggered)
             + config.placeholder_bonus <= 0 - 3
        /\ v.placeholder_used /\ v.price_claim
        /\ v.risk = 0

\* C2: the returned risk is max(0, [price] + [legal] - [stop]
\* + placeholder_bonus * [placeholder and (price or legal)]); a placeholder
\* marker without any detected claim does not change the score.
C2_ScoreFormula ==
  ScoreLogReturned =>
    LET v == outcome.value
        raw == B(v.price_claim) + B(v.legal_claim) - B(v.stop_triggered)
               + config.placeholder_bonus
                   * B(v.placeholder_used /\ (v.price_claim \/ v.legal_claim))
    IN /\ v.risk = IF raw > 0 THEN raw ELSE 0
       /\ (v.placeholder_used /\ ~v.price_claim /\ ~v.legal_claim) => v.risk = 0

\* a placeholder marker without a claim under a positive bonus
C2_Witness ==
  /\ ScoreLogReturned
  /\ config.placeholder_bonus > 0
  /\ outcome.value.placeholder_used
  /\ ~outcome.value.price_claim /\ ~outcome.value.legal_claim
  /\ outcome.value.risk = 0

\* the classification as the thresholds low, medium and high state it
C3_Level(thresholds, s) ==
  IF s <= thresholds.low THEN "LOW"
  ELSE IF s <= thresholds.medium THEN "MEDIUM"
  ELSE IF s <= thresholds.high THEN "HIGH"
  ELSE "CRITICAL"

\* C3: a score s is classified LOW if s <= low, else MEDIUM if s <= medium,
\* else HIGH if s <= high, else CRITICAL, and the risk_level of every result
\* of score_log is this classification of its own risk.
C3_Classification ==
  {"low", "medium", "high"} \subseteq DOMAIN config.risk_thresholds =>
    /\ outcome.op = "_get_risk_level" =>
         outcome.level = C3_Level(config.risk_thresholds, outcome.arg)
    /\ ScoreLogReturned =>
         outcome.value.risk_level = C3_Level(config.risk_thresholds, outcome.value.risk)

\* a result of score_log classified HIGH exactly at the high threshold
C3_Witness ==
  /\ ScoreLogReturned
  /\ {"low", "medium", "high"} \subseteq DOMAIN config.risk_thresholds
  /\ outcome.value.risk_level = "HIGH"
  /\ outcome.value.risk = config.risk_thresholds.high
  /\ outcome.value.risk > 0

\* the thresholds in force are non-decreasing
NonDecreasing(thresholds) ==
  /\ ThresholdGet(thresholds, "low", 0) <= ThresholdGet(thresholds, "medium", 1)
  /\ ThresholdGet(thresholds, "medium", 1) <= ThresholdGet(thresholds, "high", 2)

\* C4: under non-decreasing thresholds, a smaller non-negative score never
\* gets a higher level than a larger one, in the order of RiskLevel.
C4_Monotonic ==
  (outcome.op = "_get_risk_level" /\ NonDecreasing(config.risk_thresholds)) =>
    \A s1 \in 0..(outcome.arg - 1) :
      __le__(_get_risk_level(config, s1), outcome.level)

\* a score classified HIGH while a smaller one is MEDIUM and another LOW
C4_Witness ==
  /\ outcome.op = "_get_risk_level"
  /\ NonDecreasing(config.risk_thresholds)
  /\ outcome.level = "HIGH"
  /\ \E s1 \in 0..(outcome.arg - 1) : _get_risk_level(config, s1) = "MEDIUM"
  /\ \E s1 \in 0..(outcome.arg - 1) : _get_risk_level(config, s1) = "LOW"

\* the first of the three rejection conditions a log meets, 0 when none
C5_Rejection(log) ==
  IF log.type # "dict" THEN 1
  ELSE IF \A i \in 1..Len(log.items) : log.items[i][1] # "agent_id" THEN 2
  ELSE IF \E i \in 1..Len(log.items) :
            log.items[i][1] = "transcript" /\ log.items[i][2].type # "list" THEN 3
  ELSE 0

\* C5: validate_log rejects exactly the inputs that are not a dict, or lack
\* agent_id, or hold a transcript that is not a list, tested in this order,
\* and accepts every other input with an empty message.
C5_Validation ==
  outcome.op = "validate_log" =>
    LET r == C5_Rejection(outcome.arg)
        is_valid == outcome.valid[1]
        msg == outcome.valid[2]
    IN /\ is_valid <=> (r = 0)
       /\ r = 0 => msg = <<>>
       /\ r = 1 => msg = <<"Log muss ein Dictionary sein, erhalten: ", outcome.arg.type>>
       /\ r = 2 => msg = <<"Pflichtfeld 'agent_id' fehlt">>
       /\ r = 3 => msg = <<"Feld 'transcript' muss eine Liste sein">>

\* a log without agent_id whose transcript is not a list: the agent_id
\* message is the one reported
C5_Witness ==
  /\ outcome.op = "validate_log"
  /\ outcome.arg.type = "dict"
  /\ ~Has(outcome.arg, "agent_id")
  /\ Has(outcome.arg, "transcript")
  /\ get(outcome.arg, "transcript", PyNone).type # "list"
  /\ outcome.valid = <<FALSE, <<"Pflichtfeld 'agent_id' fehlt">> >>

\* C6: score_log on a log that fails validation raises the validation error
\* to its caller, returns no result and leaves the statistics table as it
\* was.
C6_InvalidLogRaises ==
  [][ (outcome'.op = "score_log" /\ C5_Rejection(outcome'.arg) # 0) =>
        /\ outcome'.kind = "raise"
        /\ outcome'.exc = "ValueError"
        /\ outcome'.msg # <<>>
        /\ agent_stats' = agent_stats
        /\ heap' = heap
        /\ results' = results ]_vars

\* a validation error raised by a scorer whose table already has entries
C6_Witness ==
  /\ outcome.op = "score_log"
  /\ outcome.kind = "raise"
  /\ outcome.exc = "ValueError"
  /\ DOMAIN agent_stats # {}
  /\ Len(results) > 0

\* the step is one observation: score_log returned a result
Observed == Len(results') = Len(results) + 1

\* the aggregate of a key before the step, all zero when it has no entry
AggregateBefore(key) ==
  IF key \in DOMAIN agent_stats THEN StatsOf(key)
  ELSE [ total_interactions |-> 0, total_risk_score |-> 0, price_claims |-> 0,
         legal_claims |-> 0, stops_triggered |-> 0, placeholders_used |-> 0,
         critical_incidents |-> 0,
         risk_levels |-> [LOW |-> 0, MEDIUM |-> 0, HIGH |-> 0, CRITICAL |-> 0] ]

\* C9: one observation changes the aggregate of the result's agent by
\* exactly +1 interaction, + risk, +1 in the histogram cell of the level, +1
\* in each claim, stop and placeholder counter whose boolean is true, and +1
\* critical incident exactly when the level is HIGH or CRITICAL.
C9_ObservationDelta ==
  [][ Observed =>
        LET r == results'[Len(results')]
            old == AggregateBefore(r.agent_id)
            new == heap'[agent_stats'[r.agent_id]]
        IN /\ new.agent_id = r.agent_id
           /\ new.total_interactions = old.total_interactions + 1
           /\ new.total_risk_score = old.total_risk_score + r.risk
           /\ \A level \in RiskLevels :
                new.risk_levels[level] = old.risk_levels[level] + B(level = r.risk_level)
           /\ new.price_claims = old.price_claims + B(r.price_claim)
           /\ new.legal_claims = old.legal_claims + B(r.legal_claim)
           /\ new.stops_triggered = old.stops_triggered + B(r.stop_triggered)
           /\ new.placeholders_used = old.placeholders_used + B(r.placeholder_used)
           /\ new.critical_incidents
                = old.critical_incidents + B(r.risk_level = "HIGH" \/ r.risk_level = "CRITICAL")
     ]_vars

\* a second observation for one agent, of level HIGH, after a first one
\* that was not critical
C9_Witness ==
  /\ ScoreLogReturned
  /\ Len(results) = 2
  /\ results[1].agent_id = results[2].agent_id
  /\ results[2].risk_level = "HIGH"
  /\ StatsOf(results[2].agent_id).total_interactions = 2
  /\ StatsOf(results[2].agent_id).critical_incidents = 1

Counters ==
  {"total_interactions", "total_risk_score", "price_claims", "legal_claims",
   "stops_triggered", "placeholders_used", "critical_incidents"}

\* C10: an observation for one agent leaves the aggregate of every other
\* agent and every result returned earlier unchanged, and between two
\* resets no counter of any agent decreases.
C10_Frame ==
  [][ /\ Observed =>
           LET r == results'[Len(results')]
           IN /\ \A k \in DOMAIN agent_stats :
                   k # r.agent_id =>
                     /\ k \in DOMAIN agent_stats'
                     /\ heap'[agent_stats'[k]] = StatsOf(k)
              /\ \A i \in 1..Len(results) : results'[i] = results[i]
      /\ outcome'.op # "reset_statistics" =>
           \A k \in DOMAIN agent_stats :
             /\ k \in DOMAIN agent_stats'
             /\ \A c \in Counters : heap'[agent_stats'[k]][c] >= StatsOf(k)[c]
             /\ \A level \in RiskLevels :
                  heap'[agent_stats'[k]].risk_levels[level] >= StatsOf(k).risk_levels[level]
    ]_vars

\* two agents observed one after the other, the first one's aggregate
\* still that of its single result
C10_Witness ==
  /\ Len(results) = 2
  /\ results[1].agent_id # results[2].agent_id
  /\ results[1].risk > 0
  /\ StatsOf(results[1].agent_id).total_interactions = 1
  /\ StatsOf(results[1].agent_id).total_risk_score = results[1].risk
  /\ StatsOf(results[2].agent_id).total_interactions = 1

\* the number of positions of a sequence that hold the value x
Count(seq, x) == Cardinality({i \in 1..Len(seq) : seq[i] = x})

\* two sequences hold the same values the same number of times
SameMultiset(a, b) ==
  /\ Len(a) = Len(b)
  /\ \A i \in 1..Len(a) : Count(a, a[i]) = Count(b, a[i])

\* score_file raises for the file when it is scored on its own
ItemFails(file) ==
  LET b == ScoreFileBuild(config, file)
  IN b.kind = "raise" \/ ~Hashable(b.value.agent_id)

RECURSIVE NonFailingResults(_)
\* the results of the files of a directory that do not fail
NonFailingResults(dir) ==
  IF Len(dir) = 0 THEN <<>>
  ELSE (IF ItemFails(Head(dir)) THEN <<>>
        ELSE <<ScoreFileBuild(config, Head(dir)).value>>)
       \o NonFailingResults(Tail(dir))

\* C7: a batch over a directory always completes and returns results: no
\* failing item, whatever error it raises, aborts the batch; the failing
\* items are left out of the returned results and every other item is in
\* them.
C7_BatchCompletes ==
  pc = "done" =>
    /\ outcome.kind = "return"
    /\ SameMultiset(outcome.results, NonFailingResults(files))

\* the same statement for score_directory_async alone
C7_AsyncCompletes ==
  (pc = "done" /\ mode = "async") =>
    /\ outcome.kind = "return"
    /\ SameMultiset(outcome.results, NonFailingResults(files))

\* the same statement for score_directory when every failing item raises
\* an error of the except clause
C7_SyncCaughtOnly ==
  (pc = "done" /\ mode = "sync"
     /\ \A i \in 1..Len(files) :
          ScoreFileBuild(config, files[i]).kind = "raise"
            => Caught(ScoreFileBuild(config, files[i]).exc)) =>
    /\ outcome.kind = "return"
    /\ SameMultiset(outcome.results, NonFailingResults(files))

\* the positions of the returned results that belong to the agent
ResultsOf(key) == {i \in 1..Len(results) : results[i].agent_id = key}

\* the sum of the risks of the returned results of the agent
RiskSum(key) ==
  Cardinality({pair \in ResultsOf(key) \X (1..(2 + MaxBonus)) :
                 pair[2] <= results[pair[1]].risk})

\* the table holds for the agent the sum of the contributions of its
\* returned results
AggregateIsSum(key) ==
  /\ key \in DOMAIN agent_stats
  /\ LET s == StatsOf(key)
         mine == ResultsOf(key)
     IN /\ s.total_interactions = Cardinality(mine)
        /\ s.total_risk_score = RiskSum(key)
        /\ \A level \in RiskLevels :
             s.risk_levels[level] = Cardinality({i \in mine : results[i].risk_level = level})
        /\ s.price_claims = Cardinality({i \in mine : results[i].price_claim})
        /\ s.legal_claims = Cardinality({i \in mine : results[i].legal_claim})
        /\ s.stops_triggered = Cardinality({i \in mine : results[i].stop_triggered})
        /\ s.placeholders_used = Cardinality({i \in mine : results[i].placeholder_used})
        /\ s.critical_incidents
             = Cardinality({i \in mine : results[i].risk_level \in {"HIGH", "CRITICAL"}})

\* C8: after score_directory_async has scored the files in parallel worker
\* threads, every agent's total_interactions is the number of its scored
\* logs and every counter the sum of their contributions, for every
\* interleaving of the workers: no update and no lazily created entry is
\* lost.
C8_NoLostUpdate ==
  (pc = "done" /\ mode = "async") =>
    \A i \in 1..Len(results) : AggregateIsSum(results[i].agent_id)

\* the same statement for the loop of score_directory, which runs in one
\* thread
C8_SyncNoLostUpdate ==
  (pc = "done" /\ mode = "sync" /\ outcome.kind = "return") =>
    \A i \in 1..Len(results) : AggregateIsSum(results[i].agent_id)

\* the agent ids of the logs scored successfully since the last reset
ScoredAgentIds == { results[i].agent_id : i \in 1..Len(results) }

\* C11: after any sequence of score_log, get_agent_statistics and
\* reset_statistics calls the keys of the statistics table are exactly the
\* agent ids of the logs scored successfully since the last reset, each
\* entry's agent_id equals its key, and the key set changes only by the
\* first observation of an agent (one key added) or by a reset (emptied).
C11_TableKeys ==
  /\ [](/\ DOMAIN agent_stats = ScoredAgentIds
        /\ \A k \in DOMAIN agent_stats : StatsOf(k).agent_id = k)
  /\ [][ DOMAIN agent_stats' # DOMAIN agent_stats =>
           \/ /\ outcome'.op = "reset_statistics"
              /\ DOMAIN agent_stats' = {}
           \/ /\ outcome'.op = "score_log" /\ outcome'.kind = "return"
              /\ outcome'.value.agent_id \notin DOMAIN agent_stats
              /\ DOMAIN agent_stats' = DOMAIN agent_stats \cup {outcome'.value.agent_id} ]_vars

\* the table read by get_agent_statistics after two agents were observed,
\* one of them under the key None
C11_Witness ==
  /\ outcome.op = "get_agent_statistics"
  /\ DOMAIN outcome.stats = {PyNone, PyStr(txt_A2)}
  /\ Len(results) = 2

RECURSIVE FreshBuild(_)
\* the table and the objects a fresh scorer builds from the results of a
\* sequence of logs: _update_statistics applied to each in turn, from the
\* empty table of __init__
FreshBuild(rs) ==
  IF Len(rs) = 0 THEN [agent_stats |-> EmptyTable, heap |-> <<>>]
  ELSE LET before == FreshBuild(SubSeq(rs, 1, Len(rs) - 1))
           u == _update_statistics(before.agent_stats, before.heap, rs[Len(rs)])
       IN [agent_stats |-> u.agent_stats, heap |-> u.heap]

\* C12: immediately after reset_statistics the statistics table is empty,
\* whatever it held, and at any time the aggregates of the table are those
\* a fresh scorer builds from the logs scored since the last reset alone.
C12_ResetClears ==
  /\ [](LET fresh == FreshBuild(results)
        IN /\ DOMAIN agent_stats = DOMAIN fresh.agent_stats
           /\ \A k \in DOMAIN agent_stats :
                StatsOf(k) = fresh.heap[fresh.agent_stats[k]])
  /\ [][ outcome'.op = "reset_statistics" =>
           DOMAIN agent_stats' = {} ]_vars

\* a reset that removed the entries of two agents and left the table empty
C12_Witness ==
  /\ outcome.op = "reset_statistics"
  /\ outcome.cleared = 2
  /\ agent_stats = EmptyTable

\* the object is the entry the table holds for its agent
InTable(stats) ==
  /\ stats.agent_id \in DOMAIN agent_stats
  /\ stats = StatsOf(stats.agent_id)

\* C13: average_risk is 0 when total_interactions is 0 and otherwise the
\* quotient total_risk_score / total_interactions, which for an entry of the
\* table is the mean of the risks of the results observed for the agent
\* since the last reset.
C13_AverageRisk ==
  outcome.op = "average_risk" =>
    LET s == outcome.self
        avg == outcome.number
    IN /\ avg.exc = ""
       /\ s.total_interactions = 0 => avg.value.num = 0
       /\ s.total_interactions # 0 =>
            avg.value.num * s.total_interactions = s.total_risk_score * avg.value.den
       /\ InTable(s) =>
            avg.value.num * Cardinality(ResultsOf(s.agent_id))
              = RiskSum(s.agent_id) * avg.value.den

\* four observations of one agent with the risks 0, 1, 2 and 3 average 1.5
C13_Witness ==
  /\ outcome.op = "average_risk"
  /\ InTable(outcome.self)
  /\ Len(results) = 4
  /\ \A i \in 1..4 : results[i].agent_id = outcome.self.agent_id /\ results[i].risk = i - 1
  /\ outcome.number.value = [type |-> "float", num |-> 3, den |-> 2]
  /\ 2 * outcome.self.total_risk_score = 3 * outcome.self.total_interactions

\* C14: stop_rate is 1.0 whenever price_claims + legal_claims is 0, whatever
\* the value of stops_triggered, and otherwise the quotient
\* stops_triggered / (price_claims + legal_claims).
C14_StopRate ==
  outcome.op = "stop_rate" =>
    LET s == outcome.self
        claims == s.price_claims + s.legal_claims
        rate == outcome.rate
    IN /\ rate.exc = ""
       /\ claims = 0 => rate.value = [type |-> "float", num |-> 1, den |-> 1]
       /\ claims # 0 => rate.value.num * claims = s.stops_triggered * rate.value.den

\* an agent with two stops and no claim has the stop rate 1.0
C14_Witness ==
  /\ outcome.op = "stop_rate"
  /\ InTable(outcome.self)
  /\ outcome.self.price_claims + outcome.self.legal_claims = 0
  /\ outcome.self.stops_triggered = 2
  /\ outcome.rate.value = [type |-> "float", num |-> 1, den |-> 1]

\* the rule is one of the rules the list configured under the key holds
Configured(key, rule) ==
  /\ Has(config.yaml_rules, key)
  /\ \E i \in 1..Len(get(config.yaml_rules, key, PyNone).items) :
       get(config.yaml_rules, key, PyNone).items[i] = PyStr(rule)

\* C15: the violations of a result are empty when no rule set is
\* configured; with a rule set, the forbidden rule and the must_include rule
\* of the price kind each emit one violation exactly when price_claim holds
\* and stop_triggered does not, the rules of the legal kind likewise with
\* legal_claim, and no other rule emits any; so a result with stop_triggered,
\* or with neither claim, carries no violation.
C15_Violations ==
  ScoreLogReturned =>
    LET v == outcome.value
        found == v.violations
        price == B(v.price_claim /\ ~v.stop_triggered)
        legal == B(v.legal_claim /\ ~v.stop_triggered)
    IN /\ ~bool(config.yaml_rules) => found = <<>>
       /\ bool(config.yaml_rules) =>
            /\ Count(found, <<"Verstoß: ", rule_price_forbidden>>)
                 = price * B(Configured("forbidden", rule_price_forbidden))
            /\ Count(found, <<"Verstoß: ", rule_legal_forbidden>>)
                 = legal * B(Configured("forbidden", rule_legal_forbidden))
            /\ Count(found, <<"Fehlend: ", rule_price_must>>)
                 = price * B(Configured("must_include", rule_price_must))
            /\ Count(found, <<"Fehlend: ", rule_legal_must>>)
                 = legal * B(Configured("must_include", rule_legal_must))
            /\ Len(found)
                 = price * (B(Configured("forbidden", rule_price_forbidden))
                            + B(Configured("must_include", rule_price_must)))
                   + legal * (B(Configured("forbidden", rule_legal_forbidden))
                              + B(Configured("must_include", rule_legal_must)))
       /\ (v.stop_triggered \/ (~v.price_claim /\ ~v.legal_claim)) => found = <<>>

\* under the rule set a result with a price claim, no legal claim and no
\* stop carries the two violations of the price kind
C15_Witness ==
  /\ ScoreLogReturned
  /\ config.yaml_rules = RuleSet
  /\ outcome.value.price_claim /\ ~outcome.value.legal_claim
  /\ ~outcome.value.stop_triggered
  /\ outcome.value.violations = << <<"Verstoß: ", rule_price_forbidden>>,
                                   <<"Fehlend: ", rule_price_must>> >>

\* C16: get_summary on an empty collection returns the sentinel with
\* total = 0 and no average, and on no collection does it raise
\* ZeroDivisionError.
C16_EmptySummary ==
  outcome.op = "get_summary" =>
    /\ outcome.summary.exc # "ZeroDivisionError"
    /\ Len(outcome.collection) = 0 =>
         /\ outcome.summary.exc = ""
         /\ outcome.summary.value.total = 0
         /\ "average_risk" \notin DOMAIN outcome.summary.value

\* the sentinel returned for the empty collection
C16_Witness ==
  /\ outcome.op = "get_summary"
  /\ outcome.collection = <<>>
  /\ outcome.summary.value = [total |-> 0, message |-> "Keine Ergebnisse"]

\* the count the histogram holds for the level, 0 when the level is absent
HistogramCount(histogram, level) ==
  IF level \in DOMAIN histogram THEN histogram[level] ELSE 0

\* the positions of the HIGH and CRITICAL results of the collection
CriticalPositions(rs) == {i \in 1..Len(rs) : rs[i].risk_level \in {"HIGH", "CRITICAL"}}

\* C17: for a non-empty list get_summary returns total = the number of
\* results, a histogram of the levels whose counts sum to total,
\* critical_count = the length of critical_incidents = the number of HIGH and
\* CRITICAL results, the incidents carrying agent_id, level and violations of
\* these results in their order, and agents_analyzed = the number of distinct
\* agent_id values.
C17_Summary ==
  (outcome.op = "get_summary" /\ Len(outcome.collection) > 0) =>
    LET rs == outcome.collection
        s == outcome.summary.value
        crit == CriticalPositions(rs)
    IN /\ outcome.summary.exc = ""
       /\ s.total = Len(rs)
       /\ DOMAIN s.risk_distribution \subseteq RiskLevels
       /\ \A level \in RiskLevels :
            HistogramCount(s.risk_distribution, level)
              = Cardinality({i \in 1..Len(rs) : rs[i].risk_level = level})
       /\ HistogramCount(s.risk_distribution, "LOW")
            + HistogramCount(s.risk_distribution, "MEDIUM")
            + HistogramCount(s.risk_distribution, "HIGH")
            + HistogramCount(s.risk_distribution, "CRITICAL") = s.total
       /\ s.critical_count = Len(s.critical_incidents)
       /\ s.critical_count = Cardinality(crit)
       /\ \A n \in 1..Len(s.critical_incidents) :
            \E i \in crit :
              /\ Cardinality({j \in crit : j <= i}) = n
              /\ s.critical_incidents[n] = [agent_id |-> rs[i].agent_id,
                                            risk_level |-> rs[i].risk_level,
                                            violations |-> rs[i].violations]
       /\ s.agents_analyzed = Cardinality({rs[i].agent_id : i \in 1..Len(rs)})

\* four results of two agents, the second and the fourth of them critical
C17_Witness ==
  /\ outcome.op = "get_summary"
  /\ Len(outcome.collection) = 4
  /\ CriticalPositions(outcome.collection) = {2, 4}
  /\ outcome.collection[2].agent_id # outcome.collection[4].agent_id
  /\ Len(outcome.collection[2].violations) = 4
  /\ outcome.summary.value.critical_incidents[1].violations = outcome.collection[2].violations
  /\ outcome.summary.value.critical_count = 2
  /\ outcome.summary.value.agents_analyzed = 2
  /\ outcome.summary.value.total = 4

\* C18: main returns, in single-file mode, 0, 1, 2, 3 for a result of level
\* LOW, MEDIUM, HIGH, CRITICAL; in batch mode 1 if the summary has a critical
\* incident and 0 otherwise; 4 for a file that is not found, 5 for
\* undecodable JSON, 6 for a validation error and 99 for any other error.
C18_ExitCodes ==
  outcome.op = "main" =>
    /\ (outcome.exc = "" /\ mode = "file") =>
         /\ outcome.level = "LOW" => outcome.code = 0
         /\ outcome.level = "MEDIUM" => outcome.code = 1
         /\ outcome.level = "HIGH" => outcome.code = 2
         /\ outcome.level = "CRITICAL" => outcome.code = 3
    /\ (outcome.exc = "" /\ mode # "file") =>
         outcome.code = IF \E i \in 1..Len(results) :
                              results[i].risk_level \in {"HIGH", "CRITICAL"}
                        THEN 1 ELSE 0
    /\ outcome.exc = "FileNotFoundError" => outcome.code = 4
    /\ outcome.exc = "JSONDecodeError" => outcome.code = 5
    /\ outcome.exc = "ValueError" => outcome.code = 6
    /\ outcome.exc \notin {"", "FileNotFoundError", "JSONDecodeError", "ValueError"} =>
         outcome.code = 99

\* the exit codes of main for every error but the one of a file that is not
\* UTF-8, which the clause for ValueError catches
C18_ExitCodesButUnicode ==
  (outcome.op = "main" /\ outcome.exc # "UnicodeDecodeError") => C18_ExitCodes

\* a non-empty list of strings
ValidKeywords(v) ==
  /\ v.type = "list" /\ Len(v.items) > 0
  /\ \A i \in 1..Len(v.items) : v.items[i].type = "str"

\* a mapping to integers
ValidThresholds(v) ==
  /\ v.type = "dict"
  /\ \A i \in 1..Len(v.items) : v.items[i][2].type = "int"

\* C19: from_yaml never raises: for a missing file, a malformed document and
\* a decoded document of any shape it returns a configuration, in which
\* every field is the value the document validly supplies or else the
\* built-in default (non-empty keyword lists, thresholds 0/1/2/3,
\* placeholder_bonus -1, no rule set).
C19_LoadNeverRaises ==
  (outcome.op = "from_yaml" /\ outcome.source.file \in {"missing", "malformed", "ok"}) =>
    /\ outcome.loaded.exc = ""
    /\ LET loaded == outcome.loaded.value
       IN /\ outcome.source.file # "ok" => loaded = ScoringConfig
          /\ loaded.price_keywords # ScoringConfig.price_keywords =>
               ValidKeywords(loaded.price_keywords)
          /\ loaded.legal_keywords # ScoringConfig.legal_keywords =>
               ValidKeywords(loaded.legal_keywords)
          /\ loaded.risk_thresholds # ScoringConfig.risk_thresholds =>
               ValidThresholds(loaded.risk_thresholds)
          /\ loaded.placeholder_bonus.type = "int"
          /\ loaded.yaml_rules.type \in {"NoneType", "dict"}

\* a missing file and a malformed document give the defaults
C19_MissingOrMalformed ==
  (outcome.op = "from_yaml" /\ outcome.source.file \in {"missing", "malformed"}) =>
    outcome.loaded = [exc |-> "", value |-> ScoringConfig]

\* a document that is a mapping whose sections are mappings never raises
C19_MappingsLoad ==
  ( /\ outcome.op = "from_yaml" /\ outcome.source.file = "ok"
    /\ outcome.source.document.type = "dict"
    /\ \A key \in {"keywords", "scoring"} :
         get(outcome.source.document, key, PyDict(<<>>)).type = "dict" ) =>
    outcome.loaded.exc = ""

\* C20: RiskLevel is totally ordered by LOW < MEDIUM < HIGH < CRITICAL: of
\* a < b, a == b and a > b exactly one holds, a <= b is a < b or a == b,
\* a >= b is a > b or a == b, and a < b with b < c gives a < c.
C20_TotalOrder ==
  outcome.op = "compare" =>
    LET a == outcome.a
        b == outcome.b
    IN /\ B(outcome.lt) + B(outcome.eq) + B(outcome.gt) = 1
       /\ outcome.le <=> (outcome.lt \/ outcome.eq)
       /\ outcome.ge <=> (outcome.gt \/ outcome.eq)
       /\ \A c \in RiskLevels : (outcome.lt /\ __lt__(b, c)) => __lt__(a, c)
       /\ \A c \in RiskLevels : (outcome.le /\ __le__(b, c)) => __le__(a, c)
       /\ (a = "LOW" /\ b = "MEDIUM") => outcome.lt
       /\ (a = "MEDIUM" /\ b = "HIGH") => outcome.lt
       /\ (a = "HIGH" /\ b = "CRITICAL") => outcome.lt

\* HIGH compared with HIGH: equal, <= and >= hold, < and > do not
C20_Witness ==
  /\ outcome.op = "compare"
  /\ outcome.a = "HIGH" /\ outcome.b = "HIGH"
  /\ outcome.eq /\ outcome.le /\ outcome.ge
  /\ ~outcome.lt /\ ~outcome.gt

\* the keyword occurs in the text, letter case ignored
Occurs(kw, text) == Contains(lower(kw), lower(text))

\* the first position of the keyword in the list
FirstIndex(keywords, kw) ==
  CHOOSE i \in 1..Len(keywords) :
    keywords[i] = kw /\ \A j \in 1..(i - 1) : keywords[j] # kw

\* C21: _check_keywords returns a flag that is true exactly when a keyword
\* of the list occurs in the text case-insensitively, and the matching
\* keywords in the order of the list and without duplicates, also for a list
\* that repeats a keyword.
C21_KeywordMatching ==
  outcome.op = "_check_keywords" =>
    LET text == outcome.text
        keywords == outcome.keywords
        flag == outcome.matched[1]
        found == outcome.matched[2]
    IN /\ flag <=> \E i \in 1..Len(keywords) : Occurs(keywords[i], text)
       /\ {found[i] : i \in 1..Len(found)}
            = {keywords[i] : i \in {j \in 1..Len(keywords) : Occurs(keywords[j], text)}}
       /\ \A i, j \in 1..Len(found) : i # j => found[i] # found[j]
       /\ \A i, j \in 1..Len(found) :
            i < j => FirstIndex(keywords, found[i]) < FirstIndex(keywords, found[j])

\* for a list that does not repeat a keyword the flag, the matches and
\* their order are the stated ones
C21_DistinctKeywords ==
  ( /\ outcome.op = "_check_keywords"
    /\ \A i, j \in 1..Len(outcome.keywords) :
         i # j => outcome.keywords[i] # outcome.keywords[j] ) => C21_KeywordMatching

\* a counter of an aggregate by its name, a cell of the histogram by its level
Measure(stats, name) ==
  IF name \in RiskLevels THEN stats.risk_levels[name] ELSE stats[name]

RECURSIVE TableSum(_, _)
\* the sum of the counter over the entries of the table under the keys
TableSum(keys, name) ==
  IF keys = {} THEN 0
  ELSE LET k == CHOOSE k \in keys : TRUE
       IN Measure(StatsOf(k), name) + TableSum(keys \ {k}, name)

\* the sum of the risks of the results
SumOfRisks(rs) ==
  Cardinality({pair \in (1..Len(rs)) \X (1..(2 + MaxBonus)) : pair[2] <= rs[pair[1]].risk})

\* C22: for the results returned by the successful score_log calls on a
\* scorer since its last reset, get_summary(results).total is the sum of
\* total_interactions over the agents of the table, critical_count the sum
\* of critical_incidents, risk_distribution the sum of the per-agent
\* histograms, the sum of the results' risks the sum of total_risk_score, and
\* agents_analyzed the number of entries of the table.
C22_SummaryAgreesWithTable ==
  outcome.op = "get_summary" =>
    LET rs == outcome.collection
        s == outcome.summary.value
        keys == DOMAIN agent_stats
    IN /\ rs = results
       /\ outcome.summary.exc = ""
       /\ s.total = TableSum(keys, "total_interactions")
       /\ SumOfRisks(rs) = TableSum(keys, "total_risk_score")
       /\ Len(rs) > 0 =>
            /\ s.critical_count = TableSum(keys, "critical_incidents")
            /\ \A level \in RiskLevels :
                 HistogramCount(s.risk_distribution, level) = TableSum(keys, level)
            /\ s.agents_analyzed = Cardinality(keys)

\* the summary of two results of two agents, one of them critical, against
\* a table of two entries
C22_Witness ==
  /\ outcome.op = "get_summary"
  /\ Len(outcome.collection) = 2
  /\ Cardinality(DOMAIN agent_stats) = 2
  /\ outcome.summary.value.critical_count = 1
  /\ TableSum(DOMAIN agent_stats, "critical_incidents") = 1
  /\ TableSum(DOMAIN agent_stats, "total_risk_score") >= 2

\* the aggregate is consistent: the histogram sums to total_interactions,
\* critical_incidents is the HIGH count plus the CRITICAL count, and no
\* counter of occurrences exceeds total_interactions
Consistent(s) ==
  /\ s.risk_levels["LOW"] + s.risk_levels["MEDIUM"] + s.risk_levels["HIGH"]
       + s.risk_levels["CRITICAL"] = s.total_interactions
  /\ s.critical_incidents = s.risk_levels["HIGH"] + s.risk_levels["CRITICAL"]
  /\ s.price_claims <= s.total_interactions
  /\ s.legal_claims <= s.total_interactions
  /\ s.stops_triggered <= s.total_interactions
  /\ s.placeholders_used <= s.total_interactions
  /\ s.critical_incidents <= s.total_interactions

\* no call of the scorer is in progress: the table is not in the middle of
\* an update
Quiescent == pc \in {"idle", "done", "exit"} \/ (mode = "sync" /\ pc = "loop")

\* C23: in every reachable state of the statistics table and for every
\* agent the four histogram counts sum to total_interactions,
\* critical_incidents is the HIGH count plus the CRITICAL count, and each of
\* price_claims, legal_claims, stops_triggered, placeholders_used and
\* critical_incidents is at most total_interactions.
C23_AggregateConsistent ==
  Quiescent => \A k \in DOMAIN agent_stats : Consistent(StatsOf(k))

\* the same statement for the calls made one after the other: the
\* operations of the scorer and the loop of score_directory
C23_SequentialConsistent ==
  (Quiescent /\ mode # "async") =>
    \A k \in DOMAIN agent_stats : Consistent(StatsOf(k))

\* an agent with a result at each of three levels, one of them critical
C23_SequentialWitness ==
  /\ Quiescent /\ mode # "async"
  /\ \E k \in DOMAIN agent_stats :
       /\ StatsOf(k).total_interactions >= 3
       /\ StatsOf(k).critical_incidents >= 1
       /\ StatsOf(k).risk_levels["LOW"] >= 1

\* C24: stop_rate is a rate between 0 and 1: in every reachable state of
\* the statistics table and for every agent with at least one claim,
\* stops_triggered is at most price_claims + legal_claims, and the
\* stop_rate of such an entry is at most 1.
C24_StopsAtMostClaims ==
  /\ Quiescent =>
       \A k \in DOMAIN agent_stats :
         LET s == StatsOf(k)
         IN s.price_claims + s.legal_claims >= 1 =>
              s.stops_triggered <= s.price_claims + s.legal_claims
  /\ (outcome.op = "stop_rate" /\ InTable(outcome.self)
        /\ outcome.self.price_claims + outcome.self.legal_claims >= 1) =>
       /\ outcome.rate.exc = ""
       /\ outcome.rate.value.num <= outcome.rate.value.den

\* the same statement for the calls made one after the other and the
\* logs that set stop_triggered only together with a claim
C24_StopsOnlyWithClaims ==
  (Quiescent /\ mode # "async"
     /\ \A i \in 1..Len(results) :
          results[i].stop_triggered => (results[i].price_claim \/ results[i].legal_claim)) =>
    \A k \in DOMAIN agent_stats :
      StatsOf(k).stops_triggered <= StatsOf(k).price_claims + StatsOf(k).legal_claims

\* the scorer runs with the default thresholds and the default bonus
DefaultScoring ==
  /\ config.risk_thresholds = DefaultConfig.risk_thresholds
  /\ config.placeholder_bonus = DefaultConfig.placeholder_bonus

\* C25: under the default configuration every result of score_log has a
\* risk of 0, 1 or 2, so the level CRITICAL is never produced and the exit
\* code of the level is never 3; the risk is 2 only when both claims are
\* detected and neither a stop nor a placeholder applies.
C25_DefaultNeverCritical ==
  (ScoreLogReturned /\ DefaultScoring) =>
    LET v == outcome.value
    IN /\ v.risk \in {0, 1, 2}
       /\ v.risk_level # "CRITICAL"
       /\ LevelCode(v.risk_level) # 3
       /\ v.risk = 2 =>
            (v.price_claim /\ v.legal_claim /\ ~v.stop_triggered /\ ~v.placeholder_used)

\* a result of risk 2 and level HIGH under the default configuration
C25_Witness ==
  /\ ScoreLogReturned /\ DefaultScoring
  /\ outcome.value.risk = 2
  /\ outcome.value.risk_level = "HIGH"
  /\ LevelCode(outcome.value.risk_level) = 2

\* under the default configuration a placeholder on both claims lowers the
\* risk to 1
C25_PlaceholderWitness ==
  /\ ScoreLogReturned /\ DefaultScoring
  /\ outcome.value.price_claim /\ outcome.value.legal_claim
  /\ outcome.value.placeholder_used /\ ~outcome.value.stop_triggered
  /\ outcome.value.risk = 1

\* the table holds the keys of the reference run, each with the same
\* aggregate
SameStatistics(run) ==
  /\ DOMAIN agent_stats = DOMAIN run.agent_stats
  /\ \A k \in DOMAIN agent_stats : StatsOf(k) = run.heap[run.agent_stats[k]]

\* C26: the asynchronous and the synchronous batch drivers are equivalent:
\* for any directory contents score_directory_async, started on a fresh
\* scorer, skips the files and returns the results (as a multiset) that
\* score_directory on a fresh scorer skips and returns, and leaves the same
\* per-agent statistics.
C26_DriversEquivalent ==
  (pc = "done" /\ mode = "async") =>
    LET sync == score_directory(config, files)
    IN /\ sync.kind = outcome.kind
       /\ sync.kind = "return" => SameMultiset(outcome.results, sync.results)
       /\ SameStatistics(sync)

\* the loop of score_directory, run step by step, ends as score_directory
\* computed in one piece does
C26_SyncIsFold ==
  (pc = "done" /\ mode = "sync") =>
    LET sync == score_directory(config, files)
    IN /\ sync.kind = outcome.kind
       /\ sync.kind = "return" => outcome.results = sync.results
       /\ sync.kind = "raise" => outcome.exc = sync.exc
       /\ SameStatistics(sync)

\* the agent ids of the files that are scored
RECURSIVE ScoredAgents(_)
ScoredAgents(dir) ==
  IF Len(dir) = 0 THEN <<>>
  ELSE (IF ItemFails(Head(dir)) THEN <<>>
        ELSE <<ScoreFileBuild(config, Head(dir)).value.agent_id>>)
       \o ScoredAgents(Tail(dir))

\* the drivers agree on the directories in which every failing file raises
\* an error of the except clause and no two scored files belong to one
\* agent
C26_EquivalentWithoutSharing ==
  (pc = "done" /\ mode = "async"
     /\ score_directory(config, files).kind = "return"
     /\ \A i, j \in 1..Len(ScoredAgents(files)) :
          i # j => ScoredAgents(files)[i] # ScoredAgents(files)[j]) =>
    LET sync == score_directory(config, files)
    IN /\ outcome.kind = "return"
       /\ SameMultiset(outcome.results, sync.results)
       /\ SameStatistics(sync)

\* the asynchronous driver over two scored files of two agents and a file
\* that is not JSON
C26_EquivalentWitness ==
  /\ pc = "done" /\ mode = "async"
  /\ Len(files) >= 2
  /\ Len(outcome.results) = 2
  /\ outcome.results[1].agent_id # outcome.results[2].agent_id

====
